---- MODULE Spec2Model ----
(***************************************************************************)
(* A model of asmt, the Aerospike shared memory tool (src/src/asmt.c):     *)
(* the key codec, the segment and file enumerators, the grouper and its    *)
(* sanity checks, the backup and restore pipelines, the I/O worker pool    *)
(* and the driver loop over the namespace names.                           *)
(*                                                                         *)
(* Representation.                                                         *)
(*  - A 32-bit key_t is the pair <<top byte, low 24 bits>>.                *)
(*  - A segment body is a sequence of cells, one per region of the body    *)
(*    that the tool reads: version@0, shutdown@4, name@12, n_arenas@20,    *)
(*    name@1024, n_arenas@2152, and the rest of the body.  A namespace     *)
(*    name is a small number (0 is the all-NUL name).                      *)
(*  - zlib's crc32 is a chained fold over the cells; a gzip stream is the  *)
(*    sequence of cells wrapped with an end-of-stream mark.                *)
(*  - The read of a field that the code never assigned (as_segment_t.type, *)
(*    as_file_t.type) is a choice among all values of the field.           *)
(***************************************************************************)
EXTENDS Integers, Sequences, FiniteSets, TLC

\* ------------------------------------------------------------------------
\* Program constants.

TYPE_BASE == 0
TYPE_TREEX == 1
TYPE_META == 2
TYPE_PRI_STAGE == 3
TYPE_SEC_STAGE == 4
TYPE_DAT_STAGE == 5

\* The top bytes of AS_XMEM_PRI_KEY 0xAE000000, AS_XMEM_SEC_KEY 0xA2000000
\* and AS_XMEM_DAT_KEY 0xAD000000.
AS_XMEM_PRI_KEY == 174
AS_XMEM_SEC_KEY == 162
AS_XMEM_DAT_KEY == 173
AS_XMEM_TREEX_KEY == 1
\* 0x100
AS_XMEM_ARENA_KEY == 256

\* 1 << AS_XMEM_INSTANCE_KEY_SHIFT (20) and 1 << AS_XMEM_NS_KEY_SHIFT (12).
INSTANCE_KEY_UNIT == 1048576
NS_KEY_UNIT == 4096

MAX_INST == 15
MIN_NSID == 1
MAX_NSID == 32
\* 0x100 and 0x8FF
MIN_ARENA == 256
MAX_ARENA == 2303
BASEVER_MIN == 10
BASEVER_MAX == 12
\* N_ARENAS_PRI_OFF + N_ARENAS_LEN and N_ARENAS_SEC_OFF + N_ARENAS_LEN
N_ARENAS_PRI_END == 2156
N_ARENAS_SEC_END == 24
\* CMPHDR_MAG1 'TMSA' and CMPHDR_MAG2 'ASMT', as small tags, and CMPHDR_VER.
CMPHDR_MAG1 == 1
CMPHDR_MAG2 == 2
CMPHDR_VER == 1

\* The null pointer (a char* that holds no name, a unit without a base).
NULL == -1

\* File extensions FILE_EXTENSION and FILE_EXTENSION_CMP.
FILE_EXTENSION == ".dat"
FILE_EXTENSION_CMP == ".dat.gz"

\* ------------------------------------------------------------------------
\* Bounds of the model.

\* The largest value of -t that the runs use.
MaxThreads == 2
\* The number of faults (failed system calls) the environment may inject
\* in one run.
MaxFaults == 1
\* The number of requests of the synthetic request lists of the pool.
MaxIos == 3

\* ------------------------------------------------------------------------
\* Keys.

Key(tag, inst, nsid, sel) ==
    <<tag, inst * INSTANCE_KEY_UNIT + nsid * NS_KEY_UNIT + sel>>

KeyTag(key) == key[1]
KeyBase(key) == key[2]
KeyInst(key) == KeyBase(key) \div INSTANCE_KEY_UNIT
KeyNsid(key) == (KeyBase(key) % INSTANCE_KEY_UNIT) \div NS_KEY_UNIT
KeySel(key) == KeyBase(key) % NS_KEY_UNIT

\* Every value an as_type field that was never assigned may hold: the six
\* enumerators and one value that is none of them.
AnyType == 0 .. 6

\* The cells of a body.
VER_CELL == 1
SHUT_CELL == 2
DATA_NAMESPACE_CELL == 3
N_ARENAS_SEC_CELL == 4
BASE_NAMESPACE_CELL == 5
N_ARENAS_PRI_CELL == 6
REST_CELL == 7
BodyLen == REST_CELL

BaseBody(ver, shut, nsnm, n_arenas, rest) == <<ver, shut, 0, 0, nsnm, n_arenas, rest>>
MetaBody(n_arenas, rest) == <<0, 0, 0, n_arenas, 0, 0, rest>>
DataBody(nsnm, rest) == <<0, 0, nsnm, 0, 0, 0, rest>>
StageBody(rest) == <<0, 0, 0, 0, 0, 0, rest>>

\* zlib's crc32(crc, buf, len): a fold over the cells, so that
\* crc32(crc32(c, a), b) = crc32(c, a \o b), as the chunked loops rely on.
RECURSIVE crc32(_, _)
crc32(crc, buf) ==
    IF buf = <<>> THEN crc
    ELSE crc32((crc * 31 + Head(buf) + 1) % 65521, Tail(buf))

\* g_crc32_init: crc32(0L, Z_NULL, 0) with -c, 0 without.
g_crc32_init == 0

\* ------------------------------------------------------------------------
\* Sorting by key: qsort(3) with qsort_compare_segments / qsort_compare_files.

KeyLess(a, b) == a[1] < b[1] \/ (a[1] = b[1] /\ a[2] < b[2])

RECURSIVE qsort(_)
qsort(S) ==
    IF S = {} THEN <<>>
    ELSE LET m == CHOOSE x \in S : \A y \in S : y = x \/ KeyLess(x.key, y.key)
         IN  <<m>> \o qsort(S \ {m})

\* The elements of a sequence, and a sequence sorted by key.
Range(s) == {s[i] : i \in 1 .. Len(s)}
qsort_seq(s) == qsort(Range(s))

\* ------------------------------------------------------------------------
\* The segment enumerator.

\* get_segment_nsnm(): the name at the offset of the segment's type, NULL
\* for the other types and for an empty name.
get_segment_nsnm(type, body) ==
    LET nsnm == IF type = TYPE_BASE THEN body[BASE_NAMESPACE_CELL]
                ELSE IF type = TYPE_DAT_STAGE THEN body[DATA_NAMESPACE_CELL]
                ELSE 0
    IN  IF nsnm = 0 THEN NULL ELSE nsnm

\* The keys whose as_segment_t.type stat_segment() never assigns: a data
\* key with a selector of 0x100 and above, and a secondary or data key with
\* the treex selector.
SegmentTypeUnset(key) ==
    /\ KeyTag(key) \in {AS_XMEM_SEC_KEY, AS_XMEM_DAT_KEY}
    /\ \/ KeySel(key) >= AS_XMEM_ARENA_KEY /\ KeyTag(key) = AS_XMEM_DAT_KEY
       \/ KeySel(key) = AS_XMEM_TREEX_KEY

\* The type stat_segment() leaves in sp->type; unset is what the malloc'ed
\* entry held.
SegmentType(key, unset) ==
    LET primary == KeyTag(key) = AS_XMEM_PRI_KEY
        secondary == KeyTag(key) = AS_XMEM_SEC_KEY
        sel == KeySel(key)
    IN  IF sel >= AS_XMEM_ARENA_KEY
        THEN IF primary THEN TYPE_PRI_STAGE
             ELSE IF secondary THEN TYPE_SEC_STAGE ELSE unset
        ELSE IF sel = AS_XMEM_TREEX_KEY
        THEN IF primary THEN TYPE_TREEX ELSE unset
        ELSE IF primary THEN TYPE_BASE
             ELSE IF secondary THEN TYPE_META ELSE TYPE_DAT_STAGE

\* What a field that was never assigned holds: unset gives it for the keys
\* (or names) that are read unassigned.
Stale(unset, x) == IF x \in DOMAIN unset THEN unset[x] ELSE TYPE_BASE

\* stat_segment(): whether the kernel's entry ds is a database segment.
stat_segment_ok(ds, unset) ==
    LET type == SegmentType(ds.key, unset)
    IN  /\ KeyTag(ds.key) \in {AS_XMEM_PRI_KEY, AS_XMEM_SEC_KEY, AS_XMEM_DAT_KEY}
        /\ KeyInst(ds.key) <= MAX_INST
        /\ KeyNsid(ds.key) >= MIN_NSID /\ KeyNsid(ds.key) <= MAX_NSID
        /\ type \in {TYPE_PRI_STAGE, TYPE_SEC_STAGE}
              => KeySel(ds.key) >= MIN_ARENA /\ KeySel(ds.key) <= MAX_ARENA

\* stat_segment(): the as_segment_t of a database segment.
stat_segment(ds, unset, with_crc32) ==
    LET type == SegmentType(ds.key, unset)
    IN  [key |-> ds.key, shmid |-> ds.key, natt |-> ds.natt, segsz |-> ds.segsz,
         inst |-> KeyInst(ds.key), nsid |-> KeyNsid(ds.key),
         type |-> type,
         stage |-> IF type \in {TYPE_PRI_STAGE, TYPE_SEC_STAGE, TYPE_DAT_STAGE}
                   THEN KeySel(ds.key) ELSE 0,
         nsnm |-> get_segment_nsnm(type, ds.body),
         crc32 |-> IF with_crc32 THEN crc32(g_crc32_init, ds.body)
                   ELSE g_crc32_init]

\* list_segments(): the table of the unattached database segments of the
\* instance, a base segment only with the requested name.  shm is the
\* kernel's table, unset the stale type per key; the table is in key order.
list_segments(shm, unset, inst, nsnm, with_crc32) ==
    qsort({sp \in {stat_segment(ds, Stale(unset, ds.key), with_crc32) :
                     ds \in {d \in shm : stat_segment_ok(d, Stale(unset, d.key))}} :
             /\ sp.natt = 0
             /\ sp.inst = inst
             /\ sp.type = TYPE_BASE => sp.nsnm # NULL /\ sp.nsnm = nsnm})

\* ------------------------------------------------------------------------
\* File names: sprintf("%s/%08x%s", g_pathdir, key, extension).  A name is
\* its eight hexadecimal digits and its extension.

RECURSIVE HexDigits(_, _)
HexDigits(n, width) ==
    IF width = 0 THEN <<>>
    ELSE Append(HexDigits(n \div 16, width - 1), n % 16)

RECURSIVE HexValue(_)
HexValue(digits) ==
    IF digits = <<>> THEN 0
    ELSE HexValue(SubSeq(digits, 1, Len(digits) - 1)) * 16 + digits[Len(digits)]

pathname(key, extension) ==
    [hex |-> HexDigits(KeyTag(key), 2) \o HexDigits(KeyBase(key), 6),
     ext |-> extension]

\* sscanf of the eight digits of a name: the key.
NameKey(name) == <<HexValue(SubSeq(name.hex, 1, 2)), HexValue(SubSeq(name.hex, 3, 8))>>

\* ------------------------------------------------------------------------
\* The kernel's segment table and the backup directory.

HasSegment(shm, key) == \E ds \in shm : ds.key = key
Segment(shm, key) == CHOOSE ds \in shm : ds.key = key
HasFile(dir, name) == \E f \in dir : f.name = name
File(dir, name) == CHOOSE f \in dir : f.name = name

\* shmat() and shmdt() on the segments keys.
shmat(shm, keys) ==
    {IF ds.key \in keys THEN [ds EXCEPT !.natt = @ + 1] ELSE ds : ds \in shm}
shmdt(shm, keys) ==
    {IF ds.key \in keys /\ ds.natt > 0 THEN [ds EXCEPT !.natt = @ - 1] ELSE ds :
       ds \in shm}
\* The bytes of a segment are set.
SetBody(shm, key, body) ==
    {IF ds.key = key THEN [ds EXCEPT !.body = body] ELSE ds : ds \in shm}
\* The bytes of a file are set.
SetData(dir, name, size, data) ==
    {IF f.name = name THEN [f EXCEPT !.size = size, !.data = data] ELSE f :
       f \in dir}
\* unlink() of the names.
unlink(dir, names) == {f \in dir : f.name \notin names}

\* ------------------------------------------------------------------------
\* The codec.

\* The gzip stream of deflate(): a lead cell, the cells shifted, and the
\* trailer with the crc32 of the input.
GZ_LEAD == 31
GZ_SHIFT == 100
deflate(buf) ==
    <<GZ_LEAD>> \o [i \in 1 .. Len(buf) |-> buf[i] + GZ_SHIFT]
                \o <<crc32(g_crc32_init, buf)>>

\* inflate() over a whole stream: the return code, the output and adler.
\* A stream that ends early gives Z_OK and the output so far.
Z_OK == 0
Z_STREAM_END == 1
Z_DATA_ERROR == -3
inflate(stream) ==
    IF stream = <<>> THEN [ret |-> Z_OK, out |-> <<>>, adler |-> g_crc32_init]
    ELSE IF stream[1] # GZ_LEAD
    THEN [ret |-> Z_DATA_ERROR, out |-> <<>>, adler |-> g_crc32_init]
    ELSE LET cells == SubSeq(stream, 2, Len(stream))
             n == IF Len(cells) > BodyLen THEN BodyLen ELSE Len(cells)
             out == [i \in 1 .. n |-> cells[i] - GZ_SHIFT]
         IN  IF \E i \in 1 .. n : cells[i] < GZ_SHIFT
             THEN [ret |-> Z_DATA_ERROR, out |-> <<>>, adler |-> g_crc32_init]
             ELSE IF Len(cells) <= BodyLen
             THEN [ret |-> Z_OK, out |-> out, adler |-> crc32(g_crc32_init, out)]
             ELSE IF cells[BodyLen + 1] # crc32(g_crc32_init, out)
             THEN [ret |-> Z_DATA_ERROR, out |-> out, adler |-> g_crc32_init]
             ELSE [ret |-> Z_STREAM_END, out |-> out,
                   adler |-> crc32(g_crc32_init, out)]

\* The header of a compressed file: magic, version, crc32, segsz.
CMPHDR_LEN == 4
as_cmp(magic, version, crc, segsz) == <<magic, version, crc, segsz>>

\* pwrite_file(): the file's size and bytes and *crc, from the request and
\* the bytes of the segment.
pwrite_file(io, body, with_crc32) ==
    [ok |-> TRUE, size |-> io.segsz, data |-> body,
     crc32 |-> IF with_crc32 THEN crc32(io.crc32, body) ELSE io.crc32]

\* zwrite_file(): the header, rewritten with the stream's crc32, and the
\* stream.
zwrite_file(io, body, with_crc32) ==
    LET adler == crc32(g_crc32_init, body)
        data == as_cmp(CMPHDR_MAG2, CMPHDR_VER, adler, io.segsz) \o deflate(body)
    IN  [ok |-> TRUE, size |-> Len(data), data |-> data,
         crc32 |-> IF with_crc32 THEN adler ELSE g_crc32_init]

write_file(io, body, with_crc32) ==
    IF io.compress THEN zwrite_file(io, body, with_crc32)
    ELSE pwrite_file(io, body, with_crc32)

\* A body of zero bytes, as shmget() creates it.
ZeroBody == [i \in 1 .. BodyLen |-> 0]
\* out copied to the start of the segment's bytes.
Overlay(body, out) ==
    [i \in 1 .. BodyLen |-> IF i <= Len(out) THEN out[i] ELSE body[i]]

\* zread_file(): the header checks, the inflate loop, and the result
\* ret == Z_STREAM_END || ret == Z_OK.
zread_file(io, f, body, with_crc32) ==
    IF Len(f.data) < CMPHDR_LEN
    THEN [ok |-> FALSE, body |-> body, crc32 |-> io.crc32]
    ELSE LET magic == f.data[1]
             version == f.data[2]
             segsz == f.data[4]
             z == inflate(SubSeq(f.data, CMPHDR_LEN + 1, Len(f.data)))
         IN  IF \/ magic # CMPHDR_MAG1 /\ magic # CMPHDR_MAG2
                \/ version # CMPHDR_VER
                \/ io.segsz # segsz
             THEN [ok |-> FALSE, body |-> body, crc32 |-> io.crc32]
             ELSE IF z.ret = Z_DATA_ERROR
             THEN [ok |-> FALSE, body |-> Overlay(body, z.out), crc32 |-> io.crc32]
             ELSE [ok |-> TRUE, body |-> Overlay(body, z.out),
                   crc32 |-> IF with_crc32 THEN z.adler ELSE g_crc32_init]

\* The loop of pread_file() on a file that ends before segsz bytes: pread()
\* returns 0 at the end of the file and the loop calls it again, for ever.
pread_spins(io, f) == ~io.write /\ ~io.compress /\ f.size < io.segsz

\* pread_file(): the bytes of the file, and the crc32 of the bytes read; of
\* a file that ends early, the bytes read before the loop spins.
pread_file(io, f, body, with_crc32) ==
    [ok |-> TRUE, body |-> Overlay(body, f.data),
     crc32 |-> IF with_crc32 THEN crc32(io.crc32, f.data) ELSE io.crc32]

read_file(io, f, body, with_crc32) ==
    IF io.compress THEN zread_file(io, f, body, with_crc32)
    ELSE pread_file(io, f, body, with_crc32)

\* ------------------------------------------------------------------------
\* The file name validator.

\* A name whose as_file_t.type validate_file_name() never assigns: the
\* treex selector under a secondary or data tag.
FileTypeUnset(name) ==
    /\ KeyTag(NameKey(name)) \in {AS_XMEM_SEC_KEY, AS_XMEM_DAT_KEY}
    /\ KeySel(NameKey(name)) = AS_XMEM_TREEX_KEY

\* validate_file_name(): whether the name is that of a database file, and
\* the fields of the as_file_t; stale is what fp->type held before.
validate_file_name(name, stale) ==
    LET key == NameKey(name)
        primary == KeyTag(key) = AS_XMEM_PRI_KEY
        secondary == KeyTag(key) = AS_XMEM_SEC_KEY
        data == KeyTag(key) = AS_XMEM_DAT_KEY
        sel == KeySel(key)
        typed == IF sel >= AS_XMEM_ARENA_KEY
                 THEN [ok |-> TRUE,
                       type |-> IF primary THEN TYPE_PRI_STAGE
                                ELSE IF secondary THEN TYPE_SEC_STAGE
                                ELSE TYPE_DAT_STAGE]
                 ELSE IF sel = AS_XMEM_TREEX_KEY
                 THEN [ok |-> TRUE, type |-> IF primary THEN TYPE_TREEX ELSE stale]
                 ELSE IF sel > 0
                 THEN [ok |-> data, type |-> TYPE_DAT_STAGE]
                 ELSE [ok |-> TRUE,
                       type |-> IF primary THEN TYPE_BASE
                                ELSE IF secondary THEN TYPE_META
                                ELSE TYPE_DAT_STAGE]
        stage == IF typed.type \in {TYPE_PRI_STAGE, TYPE_SEC_STAGE, TYPE_DAT_STAGE}
                 THEN sel ELSE 0
    IN  [ok |-> /\ name.ext \in {FILE_EXTENSION, FILE_EXTENSION_CMP}
                /\ Len(name.hex) = 8
                /\ \A i \in 1 .. Len(name.hex) : name.hex[i] \in 0 .. 15
                /\ primary \/ secondary \/ data
                /\ KeyInst(key) <= MAX_INST
                /\ KeyNsid(key) >= MIN_NSID /\ KeyNsid(key) <= MAX_NSID
                /\ typed.ok
                /\ typed.type \in {TYPE_PRI_STAGE, TYPE_SEC_STAGE}
                     => stage >= MIN_ARENA /\ stage <= MAX_ARENA,
         key |-> key, inst |-> KeyInst(key), nsid |-> KeyNsid(key),
         type |-> typed.type, stage |-> stage]

\* ------------------------------------------------------------------------
\* Units.  A unit is the record of its base, treex, primary stages, meta,
\* secondary stages and data stages; an absent base, treex or meta is the
\* empty sequence.

NoUnit == [pbsp |-> <<>>, ptsp |-> <<>>, pssps |-> <<>>, smsp |-> <<>>,
           sssps |-> <<>>, dsps |-> <<>>]

\* The members in the order backup_candidate() and restore_candidate()
\* make their requests.
UnitMembers(u) ==
    u.pbsp \o u.ptsp \o u.pssps
           \o (IF Len(u.sssps) > 0 THEN u.smsp \o u.sssps ELSE <<>>)
           \o u.dsps

\* n_objects of backup_candidate_cleanup(): the data stages are left out.
n_objects(u) ==
    Len(u.pssps) + Len(u.pbsp) + Len(u.ptsp)
        + (IF Len(u.sssps) > 0 THEN 1 + Len(u.sssps) ELSE 0)

\* Every name is taken for the name of the base.
AnyName(a, b) == TRUE
\* strcmp(a, b) == 0 of two names.
SameName(a, b) == a = b

\* The first stage, AS_XMEM_ARENA_KEY, is among the stages.
FirstStagePresent(stages) ==
    \E jx \in 1 .. Len(stages) : stages[jx].stage = AS_XMEM_ARENA_KEY

\* Every stage AS_XMEM_ARENA_KEY + ix, ix < n, is among the stages.
StagesPresent(stages) ==
    \A ix \in 0 .. Len(stages) - 1 :
       \E jx \in 1 .. Len(stages) : stages[jx].stage = ix + AS_XMEM_ARENA_KEY

\* analyze_backup_candidate(), up to the sanity check: the unit of the base
\* segment at base_ix, or the failure to compose one.
analyze_backup_candidate(segments, base_ix) ==
    LET pbsp == segments[base_ix]
        Mine(sp) == sp.nsid = pbsp.nsid /\ sp.inst = pbsp.inst
        IsTreex(sp) == sp.type = TYPE_TREEX /\ Mine(sp)
        IsPri(sp) == sp.type = TYPE_PRI_STAGE /\ Mine(sp)
        IsMeta(sp) == sp.type = TYPE_META /\ Mine(sp)
        IsSec(sp) == sp.type = TYPE_SEC_STAGE /\ Mine(sp)
        IsData(sp) == /\ sp.type = TYPE_DAT_STAGE
                      /\ sp.inst = pbsp.inst
                      /\ SameName(pbsp.nsnm, sp.nsnm)
        ptsps == SelectSeq(segments, IsTreex)
        pssps == qsort_seq(SelectSeq(segments, IsPri))
        smsps == SelectSeq(segments, IsMeta)
        sssps == IF Len(smsps) = 1 THEN qsort_seq(SelectSeq(segments, IsSec))
                 ELSE <<>>
        dsps == qsort_seq(SelectSeq(segments, IsData))
    IN  [ok |-> /\ Len(ptsps) = 1
                /\ Len(pssps) >= 1
                /\ StagesPresent(pssps)
                /\ Len(smsps) <= 1
                /\ Len(smsps) = 1 => Len(sssps) >= 1 /\ StagesPresent(sssps),
         unit |-> [pbsp |-> <<pbsp>>, ptsp |-> ptsps, pssps |-> pssps,
                   smsp |-> smsps, sssps |-> sssps, dsps |-> dsps]]

\* The version is not below BASEVER_MIN.
VersionAtLeast(base_ver) == base_ver >= BASEVER_MIN
\* base_ver < BASEVER_MIN || base_ver > BASEVER_MAX does not hold.
VersionInRange(base_ver) == base_ver >= BASEVER_MIN /\ base_ver <= BASEVER_MAX

\* The conflict check of analyze_backup_sanity(): no file of the directory
\* has a valid name with the instance and the nsid of the base.
NoFileConflict(dir, stale, inst, nsid) ==
    ~ \E f \in dir :
        LET aerospike_file == validate_file_name(f.name, Stale(stale, f.name))
        IN  /\ aerospike_file.ok
            /\ aerospike_file.inst = inst
            /\ aerospike_file.nsid = nsid

\* analyze_backup_sanity(): the size, version and shutdown status of the
\* base, the arena counts of base and meta, and the conflict check, which
\* passes when opendir() fails.
analyze_backup_sanity(u, shm, dir, stale, inst, opendir_ok) ==
    LET pbsp == u.pbsp[1]
        base == Segment(shm, pbsp.key).body
    IN  /\ pbsp.segsz >= N_ARENAS_PRI_END
        /\ VersionInRange(base[VER_CELL])
        /\ base[SHUT_CELL] = 1
        /\ base[N_ARENAS_PRI_CELL] = Len(u.pssps)
        /\ Len(u.sssps) > 0 =>
             /\ u.smsp[1].segsz >= N_ARENAS_SEC_END
             /\ Segment(shm, u.smsp[1].key).body[N_ARENAS_SEC_CELL] = Len(u.sssps)
        /\ opendir_ok => NoFileConflict(dir, stale, inst, pbsp.nsid)

\* ------------------------------------------------------------------------
\* State.

VARIABLES
    \* the host: the kernel's table of shared memory segments and the files
    \* of the backup directory, and whether the directory g_pathdir exists
    shm, dir, dir_exists,
    \* the options: g_backup is the operation (backup or restore)
    g_backup, g_analyze, g_compress, g_crc32, g_verbose, g_max_threads,
    g_inst, g_nsnm_array,
    \* the run: the segments of the host when it started, and the names of
    \* the files that were changed in the directory after the backup
    before,
    \* main(): the position of the main thread, the index into the names,
    \* the name being worked on, main's success and the exit status
    pc, name_ix, g_nsnm, success, exit_status,
    \* analyze_backup() / analyze_restore(): the table of segments or files,
    \* the index of the scan and the candidates flag
    table, scan_ix, candidates,
    \* backup_candidate() / restore_candidate(): the unit, the requests
    \* filled so far, and the result of the unit
    unit, ios, unit_ret,
    \* start_io() / run_io()
    g_ios_ok, g_next_io, g_n_ios, g_total_to_transfer, g_total_transferred,
    g_decile_transferred, g_io_mutex, n_threads, n_created, n_joined, worker,
    \* the number of system calls the environment has failed
    faults,
    \* history: the requests dispatched <<thread, index, earlier times>> and
    \* completed <<thread, index, earlier times, success>> in this
    \* start_io(), the creations of the attempt, the units of the operation
    \* and the operations run
    dispatched, completed, created, unitlog, oplog

hostVars == <<shm, dir, dir_exists>>
optVars == <<g_backup, g_analyze, g_compress, g_crc32, g_verbose,
             g_max_threads, g_inst, g_nsnm_array, before>>
mainVars == <<name_ix, g_nsnm, success, exit_status>>
scanVars == <<table, scan_ix, candidates>>
unitVars == <<unit, unit_ret>>
poolVars == <<g_ios_ok, g_next_io, g_n_ios, g_total_to_transfer,
              g_total_transferred, g_decile_transferred, g_io_mutex,
              n_threads, n_created, n_joined, worker>>
histVars == <<created, unitlog, oplog>>
vars == <<hostVars, optVars, pc, mainVars, scanVars, unitVars, ios, poolVars,
          faults, dispatched, completed, histVars>>

\* The threads of the pool.
Threads == 1 .. MaxThreads
\* The mutex is free.
NoThread == 0
\* The main thread as the holder of the mutex.
MainThread == MaxThreads + 1

\* A thread that was not created.
NoWorker == [pc |-> "none", ok |-> FALSE, next |-> 0]

\* ------------------------------------------------------------------------
\* start_io(): the main thread.

RECURSIVE SumSegsz(_)
SumSegsz(reqs) ==
    IF reqs = <<>> THEN 0 ELSE Head(reqs).segsz + SumSegsz(Tail(reqs))

\* n_threads of start_io(): n_ios > g_max_threads ? g_max_threads : n_ios.
OneThreadLess(n_ios, max_threads) == max_threads - 1
ThreadsToStart(n_ios, max_threads) ==
    IF n_ios > max_threads THEN max_threads ELSE n_ios

\* The globals are set; clock_gettime() gives the start time, or fails and
\* start_io() returns false.
StartIo ==
    /\ pc = "start_io"
    /\ g_n_ios' = Len(ios)
    /\ g_next_io' = 0
    /\ g_ios_ok' = TRUE
    /\ g_total_to_transfer' = SumSegsz(ios)
    /\ g_total_transferred' = 0
    /\ g_decile_transferred' = 0
    /\ n_threads' = ThreadsToStart(Len(ios), g_max_threads)
    /\ n_created' = 0
    /\ n_joined' = 0
    /\ worker' = [t \in Threads |-> NoWorker]
    /\ g_io_mutex' = NoThread
    /\ dispatched' = {}
    /\ completed' = {}
    /\ \E rc \in {0} \cup (IF faults < MaxFaults THEN {-1} ELSE {}) :
         IF rc # 0
         THEN /\ unit_ret' = FALSE
              /\ pc' = "io_done"
              /\ faults' = faults + 1
         ELSE /\ pc' = "create"
              /\ UNCHANGED <<unit_ret, faults>>
    /\ UNCHANGED <<hostVars, optVars, mainVars, scanVars, unit, ios, histVars>>

\* pthread_create() of thread i: the thread starts in run_io(), or the
\* creation fails and the loop is left.
StartIoCreate ==
    /\ pc = "create"
    /\ n_created < n_threads
    /\ \E rc \in {0} \cup (IF faults < MaxFaults THEN {11} ELSE {}) :
         IF rc # 0
         THEN /\ pc' = "create_failed"
              /\ faults' = faults + 1
              /\ UNCHANGED <<n_created, worker>>
         ELSE /\ n_created' = n_created + 1
              /\ worker' = [worker EXCEPT ![n_created + 1] =
                              [pc |-> "lock", ok |-> FALSE, next |-> 0]]
              /\ UNCHANGED <<pc, faults>>
    /\ UNCHANGED <<hostVars, optVars, mainVars, scanVars, unitVars, ios,
                   g_ios_ok, g_next_io, g_n_ios, g_total_to_transfer,
                   g_total_transferred, g_decile_transferred, g_io_mutex,
                   n_threads, n_joined, dispatched, completed, histVars>>

\* All the threads were created.
StartIoCreated ==
    /\ pc = "create"
    /\ n_created = n_threads
    /\ pc' = "join"
    /\ UNCHANGED <<hostVars, optVars, mainVars, scanVars, unitVars, ios,
                   poolVars, faults, dispatched, completed, histVars>>

\* After a failed pthread_create(): pthread_mutex_lock().
StartIoFailLock ==
    /\ pc = "create_failed"
    /\ g_io_mutex = NoThread
    /\ g_io_mutex' = MainThread
    /\ pc' = "create_failed_locked"
    /\ UNCHANGED <<hostVars, optVars, mainVars, scanVars, unitVars, ios,
                   g_ios_ok, g_next_io, g_n_ios, g_total_to_transfer,
                   g_total_transferred, g_decile_transferred,
                   n_threads, n_created, n_joined, worker,
                   faults, dispatched, completed, histVars>>

\* g_ios_ok = false; pthread_mutex_unlock(); break.
StartIoFailSet ==
    /\ pc = "create_failed_locked"
    /\ g_ios_ok' = FALSE
    /\ g_io_mutex' = NoThread
    /\ pc' = "join"
    /\ UNCHANGED <<hostVars, optVars, mainVars, scanVars, unitVars, ios,
                   g_next_io, g_n_ios, g_total_to_transfer,
                   g_total_transferred, g_decile_transferred,
                   n_threads, n_created, n_joined, worker,
                   faults, dispatched, completed, histVars>>

\* pthread_join() of thread j, which has returned.
StartIoJoin ==
    /\ pc = "join"
    /\ n_joined < n_created
    /\ worker[n_joined + 1].pc = "exit"
    /\ n_joined' = n_joined + 1
    /\ UNCHANGED <<hostVars, optVars, pc, mainVars, scanVars, unitVars, ios,
                   g_ios_ok, g_next_io, g_n_ios, g_total_to_transfer,
                   g_total_transferred, g_decile_transferred, g_io_mutex,
                   n_threads, n_created, worker,
                   faults, dispatched, completed, histVars>>

\* The loop of pthread_join() is over: j has reached i.
JoinedNone(j, i) == TRUE
JoinedAll(j, i) == j = i

\* return g_ios_ok.
StartIoReturn ==
    /\ pc = "join"
    /\ JoinedAll(n_joined, n_created)
    /\ unit_ret' = g_ios_ok
    /\ pc' = "io_done"
    /\ UNCHANGED <<hostVars, optVars, mainVars, scanVars, unit, ios,
                   poolVars, faults, dispatched, completed, histVars>>

\* ------------------------------------------------------------------------
\* run_io(): the threads of the pool.

\* The variables a step of a thread leaves alone, but for the pool's.
WorkerFrame == <<optVars, pc, mainVars, scanVars, unitVars, n_threads,
                 n_created, n_joined, g_n_ios, g_total_to_transfer, histVars>>

\* pthread_mutex_lock() at the top of the loop.
RunIoLock(t) ==
    /\ worker[t].pc = "lock"
    /\ g_io_mutex = NoThread
    /\ g_io_mutex' = t
    /\ worker' = [worker EXCEPT ![t].pc = "locked"]
    /\ UNCHANGED <<WorkerFrame, hostVars, ios, g_ios_ok, g_next_io,
                   g_total_transferred, g_decile_transferred, faults,
                   dispatched, completed>>

\* next = g_next_io++ of run_io().
PostIncrementStuck(n) == n
PostIncrement(n) == n + 1

\* if (ok) of run_io(): the next request is taken only while g_ios_ok.
MayDispatchAlways(ok) == TRUE
MayDispatch(ok) == ok

\* The number of times request index ix is in the history h.
Times(h, ix) == Cardinality({e \in h : e[2] = ix})

\* ok = g_ios_ok; if (ok) next = g_next_io++; pthread_mutex_unlock().
RunIoNext(t) ==
    /\ worker[t].pc = "locked"
    /\ g_io_mutex = t
    /\ worker' = [worker EXCEPT ![t] =
                    [pc |-> "check", ok |-> g_ios_ok,
                     next |-> IF MayDispatch(g_ios_ok) THEN g_next_io ELSE @.next]]
    /\ g_next_io' = IF MayDispatch(g_ios_ok) THEN PostIncrement(g_next_io)
                    ELSE g_next_io
    /\ dispatched' = IF MayDispatch(g_ios_ok) /\ g_next_io < g_n_ios
                     THEN dispatched \cup
                            {<<t, g_next_io, Times(dispatched, g_next_io)>>}
                     ELSE dispatched
    /\ g_io_mutex' = NoThread
    /\ UNCHANGED <<WorkerFrame, hostVars, ios, g_ios_ok,
                   g_total_transferred, g_decile_transferred, faults,
                   completed>>

\* if (!ok || next >= g_n_ios) break; else the request is taken.
RunIoCheck(t) ==
    /\ worker[t].pc = "check"
    /\ IF ~worker[t].ok \/ worker[t].next >= g_n_ios
       THEN worker' = [worker EXCEPT ![t].pc = "exit"]
       ELSE worker' = [worker EXCEPT ![t].pc = "io"]
    /\ UNCHANGED <<WorkerFrame, hostVars, ios, g_ios_ok, g_next_io,
                   g_total_transferred, g_decile_transferred, g_io_mutex,
                   faults, dispatched, completed>>

\* write_file() and fsync(), or read_file(), of the request; a system call
\* of the transfer may fail.  A thread whose pread_file() spins stays in
\* its loop, at "pread".
RunIoTransfer(t) ==
    /\ worker[t].pc = "io"
    /\ LET ix == worker[t].next + 1
           io == ios[ix]
           body == Segment(shm, io.key).body
           w == write_file(io, body, g_crc32)
           r == read_file(io, File(dir, io.fd), body, g_crc32)
           ok == IF io.write THEN w.ok ELSE r.ok
       IN  \E failed \in {FALSE} \cup (IF faults < MaxFaults THEN {TRUE} ELSE {}) :
             /\ faults' = IF failed THEN faults + 1 ELSE faults
             /\ IF failed
                THEN UNCHANGED <<hostVars, ios>>
                ELSE IF io.write
                THEN /\ dir' = SetData(dir, io.fd, w.size, w.data)
                     /\ ios' = [ios EXCEPT ![ix].crc32 = w.crc32]
                     /\ UNCHANGED <<shm, dir_exists>>
                ELSE /\ shm' = SetBody(shm, io.key, r.body)
                     /\ ios' = [ios EXCEPT ![ix].crc32 = r.crc32]
                     /\ UNCHANGED <<dir, dir_exists>>
             /\ IF ~failed /\ pread_spins(io, File(dir, io.fd))
                THEN /\ worker' = [worker EXCEPT ![t].pc = "pread"]
                     /\ UNCHANGED completed
                ELSE /\ worker' = [worker EXCEPT ![t].pc =
                                     IF ~failed /\ ok THEN "done_lock"
                                     ELSE "fail_lock"]
                     /\ completed' = completed \cup
                          {<<t, ix - 1, Times(completed, ix - 1), ~failed /\ ok>>}
    /\ UNCHANGED <<WorkerFrame, g_ios_ok, g_next_io, g_total_transferred,
                   g_decile_transferred, g_io_mutex, dispatched>>

\* The request failed: pthread_mutex_lock().
RunIoFailLock(t) ==
    /\ worker[t].pc = "fail_lock"
    /\ g_io_mutex = NoThread
    /\ g_io_mutex' = t
    /\ worker' = [worker EXCEPT ![t].pc = "fail_locked"]
    /\ UNCHANGED <<WorkerFrame, hostVars, ios, g_ios_ok, g_next_io,
                   g_total_transferred, g_decile_transferred, faults,
                   dispatched, completed>>

\* g_ios_ok = false; pthread_mutex_unlock(); break.
RunIoFailSet(t) ==
    /\ worker[t].pc = "fail_locked"
    /\ g_io_mutex = t
    /\ g_ios_ok' = FALSE
    /\ g_io_mutex' = NoThread
    /\ worker' = [worker EXCEPT ![t].pc = "exit"]
    /\ UNCHANGED <<WorkerFrame, hostVars, ios, g_next_io,
                   g_total_transferred, g_decile_transferred, faults,
                   dispatched, completed>>

\* The request succeeded: pthread_mutex_lock().
RunIoDoneLock(t) ==
    /\ worker[t].pc = "done_lock"
    /\ g_io_mutex = NoThread
    /\ g_io_mutex' = t
    /\ worker' = [worker EXCEPT ![t].pc = "done_locked"]
    /\ UNCHANGED <<WorkerFrame, hostVars, ios, g_ios_ok, g_next_io,
                   g_total_transferred, g_decile_transferred, faults,
                   dispatched, completed>>

\* (g_total_transferred * 10UL) / g_total_to_transfer.
DecileLeft(total, to_transfer) == 10 - (total * 10) \div to_transfer
Decile(total, to_transfer) == (total * 10) \div to_transfer

\* g_total_transferred += io->segsz; with -v the decile is recomputed and
\* kept when it changed; pthread_mutex_unlock(); the loop goes on.
RunIoDone(t) ==
    /\ worker[t].pc = "done_locked"
    /\ g_io_mutex = t
    /\ LET total == g_total_transferred + ios[worker[t].next + 1].segsz
           decile_transferred == Decile(total, g_total_to_transfer)
       IN  /\ g_total_transferred' = total
           /\ g_decile_transferred' =
                IF g_verbose /\ g_total_to_transfer # 0
                THEN decile_transferred ELSE g_decile_transferred
    /\ g_io_mutex' = NoThread
    /\ worker' = [worker EXCEPT ![t].pc = "lock"]
    /\ UNCHANGED <<WorkerFrame, hostVars, ios, g_ios_ok, g_next_io, faults,
                   dispatched, completed>>

\* One step of thread t.
RunIo(t) ==
    \/ RunIoLock(t) \/ RunIoNext(t) \/ RunIoCheck(t) \/ RunIoTransfer(t)
    \/ RunIoFailLock(t) \/ RunIoFailSet(t) \/ RunIoDoneLock(t) \/ RunIoDone(t)

\* ------------------------------------------------------------------------
\* The requests.

\* backup_candidate_file(): the request for segment sp.
backup_io(sp, compress) ==
    LET cmp == sp.type # TYPE_BASE /\ sp.type # TYPE_META /\ compress
    IN  [key |-> sp.key, write |-> TRUE, filsz |-> 0, segsz |-> sp.segsz,
         crc32 |-> g_crc32_init, compress |-> cmp,
         fd |-> pathname(sp.key, IF cmp THEN FILE_EXTENSION_CMP
                                ELSE FILE_EXTENSION)]

\* restore_candidate_segment(): the request for file fp.
restore_io(fp) ==
    [key |-> fp.key, write |-> FALSE, filsz |-> fp.filsz, segsz |-> fp.segsz,
     crc32 |-> g_crc32_init, compress |-> fp.compress,
     fd |-> pathname(fp.key, IF fp.type # TYPE_BASE /\ fp.compress
                             THEN FILE_EXTENSION_CMP ELSE FILE_EXTENSION)]

\* ------------------------------------------------------------------------
\* The pool on its own: start_io() on the requests of n stage segments, as
\* backup_candidate() or restore_candidate() hands them in.

\* The state of the process as it starts: nothing scanned, no thread, no
\* fault, no history.
InitRest ==
    /\ name_ix = 1
    /\ success = TRUE
    /\ exit_status = NULL
    /\ table = <<>>
    /\ scan_ix = 0
    /\ candidates = FALSE
    /\ unit_ret = TRUE
    /\ g_ios_ok = TRUE
    /\ g_next_io = 0
    /\ g_n_ios = 0
    /\ g_total_to_transfer = 0
    /\ g_total_transferred = 0
    /\ g_decile_transferred = 0
    /\ g_io_mutex = NoThread
    /\ n_threads = 0
    /\ n_created = 0
    /\ n_joined = 0
    /\ worker = [t \in Threads |-> NoWorker]
    /\ faults = 0
    /\ dispatched = {}
    /\ completed = {}
    /\ created = {}
    /\ unitlog = <<>>
    /\ oplog = <<>>

PoolSegments(n) ==
    {[key |-> Key(AS_XMEM_PRI_KEY, 0, 1, MIN_ARENA + i - 1), natt |-> 1,
      segsz |-> 4096 * i, body |-> StageBody(i)] : i \in 1 .. n}

PoolInit ==
    /\ g_backup \in BOOLEAN
    /\ g_analyze = FALSE
    /\ g_compress \in BOOLEAN
    /\ g_crc32 \in BOOLEAN
    /\ g_verbose \in BOOLEAN
    /\ g_max_threads \in 1 .. MaxThreads
    /\ g_inst = 0
    /\ g_nsnm_array = <<1>>
    /\ \E n \in 1 .. MaxIos :
         LET segs == qsort({stat_segment(ds, TYPE_PRI_STAGE, FALSE) :
                              ds \in PoolSegments(n)})
             wr == [i \in 1 .. n |-> backup_io(segs[i], g_compress)]
             files == {[name |-> wr[i].fd,
                        size |-> write_file(wr[i], Segment(PoolSegments(n),
                                            wr[i].key).body, FALSE).size,
                        data |-> write_file(wr[i], Segment(PoolSegments(n),
                                            wr[i].key).body, FALSE).data] :
                         i \in 1 .. n}
         IN  IF g_backup
             THEN /\ shm = PoolSegments(n)
                  /\ dir = {[name |-> wr[i].fd, size |-> 0, data |-> <<>>] :
                              i \in 1 .. n}
                  /\ ios = wr
             ELSE /\ shm = {[ds EXCEPT !.body = ZeroBody] : ds \in PoolSegments(n)}
                  /\ dir = files
                  /\ ios = [i \in 1 .. n |->
                              [wr[i] EXCEPT !.write = FALSE,
                                            !.filsz = File(files, wr[i].fd).size]]
    /\ dir_exists = TRUE
    /\ before = [shm |-> shm, changed |-> {}]
    /\ pc = "start_io"
    /\ g_nsnm = 1
    /\ unit = NoUnit
    /\ InitRest

PoolNext ==
    \/ StartIo
    \/ StartIoCreate
    \/ StartIoCreated
    \/ StartIoFailLock
    \/ StartIoFailSet
    \/ StartIoJoin
    \/ StartIoReturn
    \/ \E t \in Threads : RunIo(t)

SpecPool == PoolInit /\ [][PoolNext]_vars

\* ------------------------------------------------------------------------
\* The pool: properties.

\* start_io() has returned and its result is in unit_ret.
StartIoReturned == pc = "io_done"

\* start_io() has returned false before it made a thread, with g_ios_ok
\* still set: clock_gettime() had failed.
StartTimeFailed == pc = "io_done" /\ g_ios_ok /\ ~unit_ret

\* pthread_create() has failed in this start_io().
CreateFailed ==
    \/ pc \in {"create_failed", "create_failed_locked"}
    \/ pc \in {"join", "io_done"} /\ n_created < n_threads /\ ~StartTimeFailed

\* C24: after pthread_create() failed, g_ios_ok is cleared by the main
\* thread while it holds the mutex, no thread is created any more, and
\* once the flag is cleared no request is dispatched; when start_io() has
\* returned, every thread created was joined and has left run_io(), and
\* the result is false.
C24_CreateFailure ==
    /\ [](( CreateFailed /\ pc = "io_done") =>
             /\ n_joined = n_created
             /\ \A t \in Threads :
                   worker[t].pc = (IF t <= n_created THEN "exit" ELSE "none")
             /\ ~g_ios_ok
             /\ ~unit_ret)
    /\ [][CreateFailed =>
             /\ n_created' = n_created
             /\ worker[n_created + 1].pc = "none"
             /\ g_ios_ok' # g_ios_ok => g_io_mutex # NoThread
             /\ (pc = "create_failed_locked" /\ pc' # pc) =>
                   g_io_mutex = MainThread /\ ~g_ios_ok' /\ pc' = "join"
             /\ ~g_ios_ok => dispatched' = dispatched]_vars

\* start_io() has returned after the second pthread_create() failed: the
\* first thread had dispatched a request and was joined.
C24_Witness ==
    /\ pc = "io_done"
    /\ n_threads = MaxThreads
    /\ n_created = 1
    /\ n_joined = 1
    /\ dispatched # {}
    /\ ~unit_ret

\* The sum of segsz over the requests of the entries of the history h.
RECURSIVE SegszOf(_)
SegszOf(h) ==
    IF h = {} THEN 0
    ELSE LET e == CHOOSE x \in h : TRUE
         IN  ios[e[2] + 1].segsz + SegszOf(h \ {e})

\* The requests that were transferred with success and whose thread has
\* been through the update of g_total_transferred that follows.
Accounted ==
    {e \in completed :
       /\ e[4]
       /\ ~ /\ worker[e[1]].pc \in {"done_lock", "done_locked"}
            /\ worker[e[1]].next = e[2]}

\* C25: while the threads run, g_total_transferred is the sum of segsz
\* over the requests that succeeded and were accounted for, and is at most
\* g_total_to_transfer; it changes only in a step of the thread that holds
\* the mutex, and only upwards; and g_decile_transferred, which is printed
\* when it changes, changes only in such a step, with -v, and only upwards,
\* so that the values printed go up and none is printed twice.
C25_Progress ==
    /\ [](pc \in {"create", "create_failed", "create_failed_locked", "join",
                  "io_done"} =>
             /\ g_total_transferred = SegszOf(Accounted)
             /\ g_total_transferred <= g_total_to_transfer
             /\ g_decile_transferred <= 10)
    /\ [][pc # "start_io" =>
             /\ g_total_transferred' # g_total_transferred =>
                   /\ g_io_mutex \in Threads
                   /\ worker[g_io_mutex].pc = "done_locked"
                   /\ g_total_transferred' > g_total_transferred
             /\ g_decile_transferred' # g_decile_transferred =>
                   /\ g_verbose
                   /\ g_io_mutex \in Threads
                   /\ worker[g_io_mutex].pc = "done_locked"
                   /\ g_decile_transferred' > g_decile_transferred]_vars

\* With -v two threads have transferred a request each, the decile has
\* changed, and one of the requests is not accounted for yet.
C25_Witness ==
    /\ g_verbose
    /\ pc = "join"
    /\ g_decile_transferred > 0
    /\ g_decile_transferred < 10
    /\ \E e1 \in completed : \E e2 \in completed :
          e1[1] # e2[1] /\ e1 \in Accounted /\ e2 \notin Accounted /\ e2[4]

\* C5: first-failure cancellation.  While g_ios_ok is cleared no thread
\* takes another request index; when start_io() returns, every request that
\* was taken has run to its end, and if a request failed start_io() returns
\* false.
C5_FirstFailureCancellation ==
    /\ [][~g_ios_ok /\ pc # "start_io" =>
            g_next_io' = g_next_io /\ dispatched' = dispatched]_vars
    /\ [](StartIoReturned =>
            /\ \A d \in dispatched :
                 \E c \in completed : c[1] = d[1] /\ c[2] = d[2] /\ c[3] = d[3]
            /\ (\E c \in completed : ~c[4]) => unit_ret = FALSE)

\* A request failed while another was in flight and a third was never
\* taken; start_io() has returned.
C5_Witness ==
    /\ StartIoReturned
    /\ \E c \in completed : ~c[4]
    /\ Cardinality(completed) >= 2
    /\ Cardinality(dispatched) < g_n_ios
    /\ unit_ret = FALSE

\* C6: no request index is executed more than once, by any thread; when
\* every thread was created and every executed request succeeded, each of
\* the n requests was executed exactly once and start_io() returns true;
\* and start_io() returns true only if each of the n requests was executed
\* and succeeded.
C6_ExactlyOnce ==
    /\ \A ix \in 0 .. MaxIos :
         Times(dispatched, ix) <= 1 /\ Times(completed, ix) <= 1
    /\ StartIoReturned /\ n_created = n_threads /\ (\A c \in completed : c[4])
         => /\ \A ix \in 0 .. g_n_ios - 1 : Times(completed, ix) = 1
            /\ unit_ret = TRUE
    /\ StartIoReturned /\ unit_ret = TRUE
         => \A ix \in 0 .. g_n_ios - 1 :
              \E c \in completed : c[2] = ix /\ c[4]

\* start_io() has returned true after two threads shared the requests.
C6_Witness ==
    /\ StartIoReturned
    /\ unit_ret = TRUE
    /\ g_n_ios >= 2
    /\ \E c1, c2 \in completed : c1[1] # c2[1]

\* ------------------------------------------------------------------------
\* main() and analyze_backup().

EXIT_SUCCESS == 0
EXIT_FAILURE == 1

\* The empty string among the names.
EmptyName == 0

\* if (!analyze()) success = false; of main().
LastResult(ok, ret) == ret
Accumulate(ok, ret) == ok /\ ret

\* analyze() returns ret to main(): success is cleared by a failure and the
\* loop goes to the next name.
AnalyzeReturn(ret, units) ==
    /\ success' = Accumulate(success, ret)
    /\ oplog' = Append(oplog, [nsnm |-> g_nsnm, ret |-> ret, units |-> units])
    /\ name_ix' = name_ix + 1
    /\ pc' = "main"

\* The loop of main() over g_nsnm_array: an empty name is skipped.
MainNext ==
    /\ pc = "main"
    /\ name_ix <= Len(g_nsnm_array)
    /\ g_nsnm' = g_nsnm_array[name_ix]
    /\ IF g_nsnm_array[name_ix] = EmptyName
       THEN /\ name_ix' = name_ix + 1
            /\ UNCHANGED pc
       ELSE /\ pc' = "analyze"
            /\ UNCHANGED name_ix
    /\ unitlog' = <<>>
    /\ UNCHANGED <<hostVars, optVars, success, exit_status, scanVars, unitVars,
                   ios, poolVars, faults, dispatched, completed, created, oplog>>

\* exit(success ? EXIT_SUCCESS : EXIT_FAILURE), or EXIT_FAILURE for an empty
\* list; the process ends and its attachments with it.
MainExit ==
    /\ pc = "main"
    /\ name_ix > Len(g_nsnm_array)
    /\ exit_status' = IF Len(g_nsnm_array) > 0 /\ success THEN EXIT_SUCCESS
                      ELSE EXIT_FAILURE
    /\ shm' = {[ds EXCEPT !.natt = 0] : ds \in shm}
    /\ pc' = "exit"
    /\ UNCHANGED <<dir, dir_exists, optVars, name_ix, g_nsnm, success, scanVars,
                   unitVars, ios, poolVars, faults, dispatched, completed,
                   histVars>>

\* check_dir(): whether the directory can be used, and whether it exists
\* afterwards; a directory that is missing is made with create.  (The
\* process may read and write the directory, and mkdir() succeeds.)
check_dir(exists, is_write, create) ==
    [ok |-> exists \/ create, exists |-> exists \/ create]

\* The directory is made by every operation.
create_always(analyze) == TRUE
\* The create argument of analyze_backup()'s check_dir(): not with -a.
create(analyze) == ~analyze

\* analyze_backup(): the directory of check_dir(), made unless analyzing,
\* and the table of list_segments(); no directory and no segment are
\* failures.
AnalyzeBackup ==
    /\ pc = "analyze"
    /\ g_backup
    /\ LET cd == check_dir(dir_exists, TRUE, create(g_analyze))
       IN  /\ dir_exists' = cd.exists
           /\ \E unset \in [{ds.key : ds \in {d \in shm : SegmentTypeUnset(d.key)}}
                              -> AnyType] :
                LET segments == list_segments(shm, unset, g_inst, g_nsnm, g_crc32)
                IN  IF ~cd.ok \/ Len(segments) = 0
                    THEN /\ AnalyzeReturn(FALSE, unitlog)
                         /\ UNCHANGED scanVars
                    ELSE /\ table' = segments
                         /\ scan_ix' = 1
                         /\ candidates' = FALSE
                         /\ pc' = "scan"
                         /\ UNCHANGED <<name_ix, success, oplog>>
    /\ UNCHANGED <<shm, dir, optVars, g_nsnm, exit_status, unitVars, ios,
                   poolVars, faults, dispatched, completed, created, unitlog>>

\* The loop of analyze_backup() over the table, from scan_ix to the next
\* base segment: its unit is composed and checked, and backed up unless
\* analyzing; after the last segment the function returns true, or looks
\* for orphaned data segments when there was no base.
AnalyzeBackupScan ==
    /\ pc = "scan"
    /\ g_backup
    /\ LET bases == {ix \in scan_ix .. Len(table) : table[ix].type = TYPE_BASE}
           base_ix == CHOOSE ix \in bases : \A jx \in bases : ix <= jx
           c == analyze_backup_candidate(table, base_ix)
       IN  IF bases = {}
           THEN /\ IF candidates
                   THEN AnalyzeReturn(TRUE, unitlog)
                   ELSE /\ pc' = "orphans"
                        /\ UNCHANGED <<name_ix, success, oplog>>
                /\ UNCHANGED <<scanVars, unit, ios, created, faults>>
           ELSE \E stale \in [{f.name : f \in {x \in dir : FileTypeUnset(x.name)}}
                                -> AnyType] :
                \E opendir_ok \in IF /\ faults < MaxFaults
                                     /\ c.ok
                                     /\ analyze_backup_sanity(c.unit, shm, dir, stale,
                                                              g_inst, FALSE)
                                  THEN BOOLEAN ELSE {TRUE} :
                  /\ faults' = IF opendir_ok THEN faults ELSE faults + 1
                  /\ IF \/ ~c.ok
                        \/ ~analyze_backup_sanity(c.unit, shm, dir, stale, g_inst,
                                                  opendir_ok)
                     THEN /\ AnalyzeReturn(FALSE, unitlog)
                          /\ UNCHANGED <<scanVars, unit, ios, created>>
                     ELSE IF g_analyze
                     THEN /\ scan_ix' = base_ix + 1
                          /\ candidates' = TRUE
                          /\ UNCHANGED <<pc, name_ix, success, oplog, table, unit,
                                         ios, created>>
                     ELSE /\ scan_ix' = base_ix
                          /\ candidates' = TRUE
                          /\ unit' = c.unit
                          /\ ios' = <<>>
                          /\ created' = {}
                          /\ pc' = "bc_file"
                          /\ UNCHANGED <<name_ix, success, oplog, table>>
    /\ UNCHANGED <<hostVars, optVars, g_nsnm, exit_status, unit_ret, poolVars,
                   dispatched, completed, unitlog>>

\* The search of analyze_backup() for orphaned data segments: the data
\* stages of the instance whose name is g_nsnm are a unit without a base.
AnalyzeBackupOrphans ==
    /\ pc = "orphans"
    /\ g_backup
    /\ LET IsOrphan(sp) ==
             /\ sp.type = TYPE_DAT_STAGE
             /\ sp.inst = g_inst
             /\ get_segment_nsnm(sp.type, Segment(shm, sp.key).body) = g_nsnm
           dsps == qsort_seq(SelectSeq(table, IsOrphan))
       IN  IF Len(dsps) > 0 /\ ~g_analyze
           THEN /\ unit' = [NoUnit EXCEPT !.dsps = dsps]
                /\ ios' = <<>>
                /\ created' = {}
                /\ candidates' = TRUE
                /\ pc' = "bc_file"
                /\ UNCHANGED <<name_ix, success, oplog>>
           ELSE /\ AnalyzeReturn(TRUE, unitlog)
                /\ candidates' = (Len(dsps) > 0)
                /\ UNCHANGED <<unit, ios, created>>
    /\ UNCHANGED <<hostVars, optVars, g_nsnm, exit_status, table, scan_ix,
                   unit_ret, poolVars, faults, dispatched, completed, unitlog>>

\* ------------------------------------------------------------------------
\* backup_candidate().

\* The extension backup_candidate_cleanup() gives the file of a member.
CleanupExtension(sp_is_plain, compress) ==
    IF ~sp_is_plain /\ compress THEN FILE_EXTENSION_CMP ELSE FILE_EXTENSION

\* The names backup_candidate_cleanup() unlinks: the files of the base, the
\* treex, the primary stages and, with secondary stages, the meta and the
\* secondary stages.
CleanupNames(u, compress) ==
    {pathname(u.pbsp[i].key, CleanupExtension(TRUE, compress)) :
       i \in 1 .. Len(u.pbsp)}
    \cup {pathname(u.ptsp[i].key, CleanupExtension(FALSE, compress)) :
            i \in 1 .. Len(u.ptsp)}
    \cup {pathname(u.pssps[i].key, CleanupExtension(FALSE, compress)) :
            i \in 1 .. Len(u.pssps)}
    \cup (IF Len(u.sssps) > 0
          THEN {pathname(u.smsp[i].key, CleanupExtension(TRUE, compress)) :
                  i \in 1 .. Len(u.smsp)}
               \cup {pathname(u.sssps[i].key, CleanupExtension(FALSE, compress)) :
                       i \in 1 .. Len(u.sssps)}
          ELSE {})

\* The slots of ios[] that backup_candidate_cleanup() passes to shmdt() and
\* close(): the first n_objects.
CleanupSlots(u) == 1 .. n_objects(u)

\* The keys backup_candidate_cleanup() detaches: those of the first
\* n_objects slots, of which attached are set.
CleanupDetached(u, attached) ==
    {attached[i] : i \in CleanupSlots(u) \cap DOMAIN attached}

\* What shmdt() of the slots that were never set may detach: memptr of
\* such a slot is whatever the stack held, which is no attachment or one
\* this process still has.
StrayDetached(s, u, attached) ==
    IF CleanupSlots(u) \subseteq DOMAIN attached THEN {{}}
    ELSE SUBSET ({ds.key : ds \in {x \in s : x.natt > 0}}
                   \ CleanupDetached(u, attached))

\* backup_candidate_cleanup(): the segment table and the directory after;
\* stray is what the slots never set made it detach.
backup_candidate_cleanup(s, d, u, attached, stray, remove_files, compress) ==
    [shm |-> shmdt(s, CleanupDetached(u, attached) \cup stray),
     dir |-> IF remove_files THEN unlink(d, CleanupNames(u, compress)) ELSE d]

\* The keys of the requests.
IoKeys(reqs) == [i \in 1 .. Len(reqs) |-> reqs[i].key]

\* backup_candidate_file() for the next member of the unit: shmat(), the
\* request, open(O_CREAT | O_EXCL) and, for a file that is not compressed,
\* posix_fallocate(), whose failure (a positive return) passes the check
\* rc < 0.  A failure cleans up and backup_candidate() returns false; after
\* the last member the requests are handed to start_io().
BackupCandidateFile ==
    /\ pc = "bc_file"
    /\ LET members == UnitMembers(unit)
           sp == members[Len(ios) + 1]
           io == backup_io(sp, g_compress)
           outcomes == {"ok"} \cup
                       (IF faults < MaxFaults
                        THEN {"shmat"} \cup
                             (IF HasFile(dir, io.fd) THEN {}
                              ELSE IF io.compress THEN {"open"}
                              ELSE {"open", "posix_fallocate"})
                        ELSE {})
       IN  \E o \in outcomes :
             /\ faults' = IF o = "ok" THEN faults ELSE faults + 1
             /\ IF o = "shmat"
                THEN \E stray \in StrayDetached(shm, unit, IoKeys(ios)) :
                     LET c == backup_candidate_cleanup(shm, dir, unit, IoKeys(ios),
                                                       stray, TRUE, g_compress)
                     IN  /\ shm' = c.shm
                         /\ dir' = c.dir
                         /\ unit_ret' = FALSE
                         /\ pc' = "bc_ret"
                         /\ UNCHANGED <<ios, created>>
                ELSE IF o = "open" \/ HasFile(dir, io.fd)
                THEN \E stray \in StrayDetached(shmat(shm, {sp.key}), unit,
                                                  Append(IoKeys(ios), sp.key)) :
                     LET c == backup_candidate_cleanup(
                                  shmat(shm, {sp.key}), dir, unit,
                                  Append(IoKeys(ios), sp.key), stray, TRUE,
                                  g_compress)
                     IN  /\ shm' = c.shm
                         /\ dir' = c.dir
                         /\ unit_ret' = FALSE
                         /\ pc' = "bc_ret"
                         /\ UNCHANGED <<ios, created>>
                ELSE /\ shm' = shmat(shm, {sp.key})
                     /\ dir' = dir \cup
                          {[name |-> io.fd,
                            size |-> IF io.compress \/ o = "posix_fallocate"
                                     THEN 0 ELSE sp.segsz,
                            data |-> <<>>]}
                     /\ created' = created \cup {io.fd}
                     /\ ios' = Append(ios, io)
                     /\ pc' = IF Len(ios) + 1 = Len(members) THEN "start_io"
                              ELSE "bc_file"
                     /\ UNCHANGED unit_ret
    /\ UNCHANGED <<dir_exists, optVars, mainVars, scanVars, unit, poolVars,
                   dispatched, completed, unitlog, oplog>>

\* No crc32 is compared.
backup_candidate_no_check(u, reqs) == TRUE

\* backup_candidate_check_crc32(): the crc32 of each member against that of
\* the request at the member's fixed index.
backup_candidate_check_crc32(u, reqs) ==
    LET n_pssps == Len(u.pssps)
        n_sssps == Len(u.sssps)
    IN  /\ \A i \in 1 .. Len(u.pbsp) : u.pbsp[i].crc32 = reqs[1].crc32
        /\ \A i \in 1 .. Len(u.ptsp) : u.ptsp[i].crc32 = reqs[2].crc32
        /\ \A ix \in 1 .. n_pssps : u.pssps[ix].crc32 = reqs[2 + ix].crc32
        /\ n_sssps > 0 =>
             /\ \A i \in 1 .. Len(u.smsp) :
                  u.smsp[i].crc32 = reqs[2 + n_pssps + 1].crc32
             /\ \A ix \in 1 .. n_sssps :
                  u.sssps[ix].crc32 = reqs[2 + n_pssps + 1 + ix].crc32
        /\ \A ix \in 1 .. Len(u.dsps) :
             u.dsps[ix].crc32 =
               reqs[IF Len(u.pbsp) = 0 THEN ix
                    ELSE 2 + n_pssps + n_sssps + Len(u.smsp) + ix].crc32

\* backup_candidate() after start_io(): the crc32 check with -c, the
\* cleanup, which removes the files after a failure, and the result.
BackupCandidateFinish ==
    /\ pc = "io_done"
    /\ g_backup
    /\ LET ok == unit_ret /\ (g_crc32 => backup_candidate_check_crc32(unit, ios))
           c == backup_candidate_cleanup(shm, dir, unit, IoKeys(ios), {}, ~ok,
                                         g_compress)
       IN  /\ shm' = c.shm
           /\ dir' = c.dir
           /\ unit_ret' = ok
    /\ pc' = "bc_ret"
    /\ UNCHANGED <<dir_exists, optVars, mainVars, scanVars, unit, ios, poolVars,
                   faults, dispatched, completed, histVars>>

\* The files of the attempt that are in the directory.
CreatedLeft == {name \in created : HasFile(dir, name)}

\* backup_candidate() has returned to analyze_backup(): the result of the
\* unit of a base ends the operation when false and lets the scan go on when
\* true; the result of the unit of orphans is dropped.
AnalyzeBackupResume ==
    /\ pc = "bc_ret"
    /\ LET units == Append(unitlog, [data_only |-> Len(unit.pbsp) = 0,
                                     ret |-> unit_ret, left |-> CreatedLeft])
       IN  /\ unitlog' = units
           /\ IF Len(unit.pbsp) = 0
              THEN /\ AnalyzeReturn(TRUE, units)
                   /\ UNCHANGED scanVars
              ELSE IF unit_ret
              THEN /\ scan_ix' = scan_ix + 1
                   /\ pc' = "scan"
                   /\ UNCHANGED <<name_ix, success, oplog, table, candidates>>
              ELSE /\ AnalyzeReturn(FALSE, units)
                   /\ UNCHANGED scanVars
    /\ UNCHANGED <<hostVars, optVars, g_nsnm, exit_status, unitVars, ios,
                   poolVars, faults, dispatched, completed, created>>

\* ------------------------------------------------------------------------
\* Hosts.

\* A segment that no process has attached.
seg(key, segsz, body) == [key |-> key, natt |-> 0, segsz |-> segsz, body |-> body]

\* A unit as the server leaves it when it shuts down: a base, a treex and
\* n primary stages; with meta, a meta and n secondary stages; and the data
\* stages of the selectors sels.
ServerUnit(inst, nsid, nsnm, n, meta, sels) ==
    {seg(Key(AS_XMEM_PRI_KEY, inst, nsid, 0), 4096,
         BaseBody(BASEVER_MAX, 1, nsnm, n, 7)),
     seg(Key(AS_XMEM_PRI_KEY, inst, nsid, AS_XMEM_TREEX_KEY), 8192, StageBody(8))}
    \cup {seg(Key(AS_XMEM_PRI_KEY, inst, nsid, AS_XMEM_ARENA_KEY + i - 1),
              16384, StageBody(10 + i)) : i \in 1 .. n}
    \cup (IF meta
          THEN {seg(Key(AS_XMEM_SEC_KEY, inst, nsid, 0), 4096, MetaBody(n, 9))}
               \cup {seg(Key(AS_XMEM_SEC_KEY, inst, nsid, AS_XMEM_ARENA_KEY + i - 1),
                         16384, StageBody(20 + i)) : i \in 1 .. n}
          ELSE {})
    \cup {seg(Key(AS_XMEM_DAT_KEY, inst, nsid, sel), 8192, DataBody(nsnm, 30 + sel)) :
            sel \in sels}

\* The data stages of a namespace whose other segments are gone.
OrphanData(inst, nsid, nsnm, sels) ==
    {seg(Key(AS_XMEM_DAT_KEY, inst, nsid, sel), 8192, DataBody(nsnm, 40 + sel)) :
       sel \in sels}

\* A file of the directory from an earlier backup.
OldFile(key, extension) ==
    [name |-> pathname(key, extension), size |-> 8192, data |-> StageBody(50)]

\* The host with the base segment, or the meta segment, of the size and
\* with the body.
WithBody(host, tag, segsz, body) ==
    {IF KeyTag(ds.key) = tag /\ KeySel(ds.key) = 0 THEN seg(ds.key, segsz, body)
     ELSE ds : ds \in host}

\* The names "foo", "bar" and "baz".
Foo == 1
Bar == 2
Baz == 3

\* The host of most runs: the unit of "foo" (nsid 1) with one primary stage
\* and one data stage, next to two orphaned data stages of "bar" (nsid 2).
Host1 == ServerUnit(0, 1, Foo, 1, FALSE, {0}) \cup OrphanData(0, 2, Bar, {0, 2})
\* The unit of "foo" with two primary stages, a meta, two secondary stages.
Host2 == ServerUnit(0, 1, Foo, 2, TRUE, {})
\* The unit of "foo" with a data stage of selector 1 and one of 0x100.
Host3 == ServerUnit(0, 1, Foo, 1, FALSE, {1, AS_XMEM_ARENA_KEY})
\* The unit of "foo" with primary stages 0x100 and 0x102: stage 0x101 is
\* missing.
Host4 ==
    {ds \in ServerUnit(0, 1, Foo, 2, FALSE, {}) :
       KeySel(ds.key) # AS_XMEM_ARENA_KEY + 1}
    \cup {seg(Key(AS_XMEM_PRI_KEY, 0, 1, AS_XMEM_ARENA_KEY + 2), 16384,
              StageBody(13))}
\* The unit of "foo" with a meta and no secondary stage.
Host5 ==
    {ds \in ServerUnit(0, 1, Foo, 1, TRUE, {}) :
       ~(KeyTag(ds.key) = AS_XMEM_SEC_KEY /\ KeySel(ds.key) >= AS_XMEM_ARENA_KEY)}
\* The unit of "foo" with a secondary stage and no meta, next to a data stage
\* of "bar" with the nsid of "foo" and a data stage of "foo" with another
\* nsid.
Host6 ==
    {ds \in ServerUnit(0, 1, Foo, 1, TRUE, {0}) :
       ~(KeyTag(ds.key) = AS_XMEM_SEC_KEY /\ KeySel(ds.key) = 0)}
    \cup OrphanData(0, 1, Bar, {3}) \cup OrphanData(0, 2, Foo, {4})

\* Units of "foo" that the server did not leave in order: a base with
\* version 13, with version 9, that was not shut down, with two arenas for
\* the one primary stage, and of 2048 bytes; and a meta with one arena for
\* the two secondary stages.
InsaneHosts ==
    {WithBody(ServerUnit(0, 1, Foo, 1, FALSE, {}), AS_XMEM_PRI_KEY, 4096,
              BaseBody(BASEVER_MAX + 1, 1, Foo, 1, 7)),
     WithBody(ServerUnit(0, 1, Foo, 1, FALSE, {}), AS_XMEM_PRI_KEY, 4096,
              BaseBody(BASEVER_MIN - 1, 1, Foo, 1, 7)),
     WithBody(ServerUnit(0, 1, Foo, 1, FALSE, {}), AS_XMEM_PRI_KEY, 4096,
              BaseBody(BASEVER_MAX, 0, Foo, 1, 7)),
     WithBody(ServerUnit(0, 1, Foo, 1, FALSE, {}), AS_XMEM_PRI_KEY, 4096,
              BaseBody(BASEVER_MAX, 1, Foo, 2, 7)),
     WithBody(ServerUnit(0, 1, Foo, 1, FALSE, {}), AS_XMEM_PRI_KEY, 2048,
              BaseBody(BASEVER_MAX, 1, Foo, 1, 7)),
     WithBody(Host2, AS_XMEM_SEC_KEY, 4096, MetaBody(1, 9))}

\* The data stages 0xad002000 and 0xad002001 of "bar", without a base.
Host7 == OrphanData(0, 2, Bar, {0, AS_XMEM_TREEX_KEY})

\* The server of Host1 and a segment of the primary family with selector
\* 2, of namespace id 3, that holds the name "baz".
Host8 ==
    Host1 \cup {seg(Key(AS_XMEM_PRI_KEY, 0, 3, 2), 4096,
                    BaseBody(BASEVER_MAX, 1, Baz, 1, 7))}

\* The unit of "foo" without its treex, and segments whose keys are not
\* those of a database: a tag that is none of the three, the namespace ids
\* 0 and 33, a selector above MAX_ARENA under the primary and the secondary
\* tag, and the treex selector under the secondary tag.
Host9 ==
    {ds \in ServerUnit(0, 1, Foo, 1, FALSE, {}) :
       KeySel(ds.key) # AS_XMEM_TREEX_KEY}
    \cup {seg(Key(AS_XMEM_DAT_KEY - 2, 0, 1, 0), 8192, StageBody(60)),
          seg(Key(AS_XMEM_PRI_KEY, 0, MIN_NSID - 1, 0), 8192, StageBody(61)),
          seg(Key(AS_XMEM_DAT_KEY, 0, MAX_NSID + 1, 0), 8192, StageBody(62)),
          seg(Key(AS_XMEM_PRI_KEY, 0, 1, MAX_ARENA + 1), 8192, StageBody(63)),
          seg(Key(AS_XMEM_SEC_KEY, 0, 1, MAX_ARENA + 1), 8192, StageBody(64)),
          seg(Key(AS_XMEM_SEC_KEY, 0, 1, AS_XMEM_TREEX_KEY), 8192,
              StageBody(65))}

\* A run: the host, the directory, the list of -n, the value of -t, and the
\* names of the files changed since the backup.
Run(host, files, names, t) ==
    [shm |-> host, dir |-> files, names |-> names, threads |-> t,
     changed |-> {}]

\* The runs of asmt -b.
BackupRuns ==
    {Run(Host1, {}, <<Foo>>, MaxThreads),
     Run(Host1, {}, <<Bar>>, MaxThreads),
     Run(Host1, {}, <<Baz>>, 1),
     Run(Host1, {}, <<>>, 1),
     Run(Host1, {}, <<Foo, Bar>>, 1),
     Run(Host1, {}, <<Foo, Foo>>, 1),
     Run(Host1, {}, <<EmptyName, Bar, EmptyName>>, 1),
     Run(Host1, {OldFile(Key(AS_XMEM_PRI_KEY, 0, 1, AS_XMEM_ARENA_KEY),
                         FILE_EXTENSION)}, <<Foo>>, 1),
     Run(Host1, {OldFile(Key(AS_XMEM_PRI_KEY, 0, 2, AS_XMEM_ARENA_KEY),
                         FILE_EXTENSION_CMP)}, <<Bar>>, 1),
     Run(Host1, {OldFile(Key(AS_XMEM_DAT_KEY, 0, 2, 2), FILE_EXTENSION)},
         <<Bar, Foo>>, 1),
     Run(Host2, {}, <<Foo>>, 1),
     Run(Host3, {}, <<Foo>>, 1),
     Run(Host4, {}, <<Foo>>, 1),
     Run(Host5, {}, <<Foo>>, 1),
     Run(Host6, {}, <<Foo>>, 1),
     Run(Host7, {}, <<Bar>>, 1),
     Run(Host8, {}, <<Baz>>, 1),
     Run(Host9, {}, <<Foo>>, 1)}
    \cup {Run(host, {}, <<Foo>>, 1) : host \in InsaneHosts}

\* ------------------------------------------------------------------------
\* asmt -b: backups of the names of a list.

BackupInit ==
    /\ \E run \in BackupRuns :
         /\ shm = run.shm
         /\ dir = run.dir
         /\ g_nsnm_array = run.names
         /\ g_max_threads = run.threads
         /\ before = [shm |-> run.shm, changed |-> run.changed]
         /\ dir_exists \in IF run.dir = {} THEN BOOLEAN ELSE {TRUE}
    /\ g_backup = TRUE
    /\ g_analyze \in BOOLEAN
    /\ g_compress \in BOOLEAN
    /\ g_crc32 \in BOOLEAN
    /\ g_verbose = FALSE
    /\ g_inst = 0
    /\ pc = "main"
    /\ g_nsnm = EmptyName
    /\ unit = NoUnit
    /\ ios = <<>>
    /\ InitRest

BackupNext ==
    \/ MainNext
    \/ MainExit
    \/ AnalyzeBackup
    \/ AnalyzeBackupScan
    \/ AnalyzeBackupOrphans
    \/ BackupCandidateFile
    \/ StartIo
    \/ StartIoCreate
    \/ StartIoCreated
    \/ StartIoFailLock
    \/ StartIoFailSet
    \/ StartIoJoin
    \/ StartIoReturn
    \/ \E t \in Threads : RunIo(t)
    \/ BackupCandidateFinish
    \/ AnalyzeBackupResume

SpecBackup == BackupInit /\ [][BackupNext]_vars

\* ------------------------------------------------------------------------
\* The backup: properties.

\* backup_candidate() has returned and its result is in unit_ret.
BackupCandidateReturned == g_backup /\ pc = "bc_ret"

\* C1: when backup_candidate() returns false, no file that the attempt
\* created is in the directory.
C1_FailedBackupLeavesNoFile ==
    BackupCandidateReturned /\ ~unit_ret => CreatedLeft = {}

\* backup_candidate() is at work on the unit, or has returned.
InBackupCandidate ==
    /\ g_backup
    /\ pc \in {"bc_file", "start_io", "create", "create_failed",
               "create_failed_locked", "join", "io_done", "bc_ret"}

\* The files that were in the directory before the attempt and whose name
\* is valid, whatever the stale type, with the instance and an nsid of the
\* unit.
ConflictingFiles ==
    {f \in dir :
       /\ f.name \notin created
       /\ \A stale \in AnyType :
            LET fp == validate_file_name(f.name, stale)
            IN  /\ fp.ok
                /\ fp.inst = g_inst
                /\ \E i \in 1 .. Len(UnitMembers(unit)) :
                     UnitMembers(unit)[i].nsid = fp.nsid}

\* C10: the backup of a unit, with a base or without, creates no file and
\* returns false when the directory holds a file with a valid name of the
\* instance and the nsid of the unit.
C10_ConflictFailsBackup ==
    InBackupCandidate /\ ConflictingFiles # {} =>
       /\ created = {}
       /\ pc = "bc_ret" => ~unit_ret

\* C27: when backup_candidate_file() fails, the slots of ios[] that
\* backup_candidate_cleanup() passes to shmdt() and close() are among those
\* backup_candidate_file() has reached: the requests made and the one whose
\* preparation failed.
C27_CleanupOfFilledSlots ==
    [][(g_backup /\ pc = "bc_file" /\ pc' = "bc_ret") =>
          CleanupSlots(unit) \subseteq 1 .. Len(ios) + 1]_vars

\* C28: every file a step of a backup removes from the directory is one
\* the attempt on the unit created: no file that was there before the
\* attempt is unlinked.
C28_UnlinkedWereCreated ==
    [][g_backup =>
          {f.name : f \in dir} \ {f.name : f \in dir'} \subseteq created]_vars

\* The records of the table of list_segments() that stat_segment() made a
\* tree index, a primary stage, a meta or a secondary stage, of the
\* instance and the nsid of the base of the unit.
IndexSegmentsOfBase ==
    {i \in 1 .. Len(table) :
       /\ ~SegmentTypeUnset(table[i].key)
       /\ table[i].type \in {TYPE_TREEX, TYPE_PRI_STAGE, TYPE_META, TYPE_SEC_STAGE}
       /\ table[i].inst = unit.pbsp[1].inst
       /\ table[i].nsid = unit.pbsp[1].nsid}

\* C30: when backup_candidate() returns true for a unit with a base, every
\* tree index, primary stage, meta and secondary stage of the table with
\* the instance and the nsid of the base has a request of the unit, whose
\* file is in the directory.
C30_NoIndexSegmentLeftOut ==
    (BackupCandidateReturned /\ unit_ret /\ Len(unit.pbsp) > 0) =>
       \A i \in IndexSegmentsOfBase :
          \E j \in 1 .. Len(ios) :
             /\ ios[j].key = table[i].key
             /\ HasFile(dir, ios[j].fd)

\* ------------------------------------------------------------------------
\* The file enumerator.

\* is_file_compressed(): the compressed file of the key is there and the
\* plain one is not.  (With both there the function asserts; no directory
\* here holds both.)
is_file_compressed(d, key) ==
    /\ HasFile(d, pathname(key, FILE_EXTENSION_CMP))
    /\ ~HasFile(d, pathname(key, FILE_EXTENSION))

\* get_file_nsnm_compressed(): the name in the first chunk that inflates
\* from the file, NULL when the file, its header or its stream is bad.
get_file_nsnm_compressed(d, key) ==
    LET name == pathname(key, IF is_file_compressed(d, key)
                              THEN FILE_EXTENSION_CMP ELSE FILE_EXTENSION)
        data == File(d, name).data
        z == inflate(SubSeq(data, CMPHDR_LEN + 1, Len(data)))
    IN  IF ~HasFile(d, name) THEN NULL
        ELSE IF Len(data) <= CMPHDR_LEN THEN NULL
        ELSE IF data[1] # CMPHDR_MAG1 /\ data[1] # CMPHDR_MAG2 THEN NULL
        ELSE IF data[2] # CMPHDR_VER THEN NULL
        ELSE IF z.ret = Z_DATA_ERROR THEN NULL
        ELSE Overlay(ZeroBody, z.out)[DATA_NAMESPACE_CELL]

\* get_file_nsnm(): the name in the file of a data stage.
get_file_nsnm(d, key) ==
    LET name == pathname(key, FILE_EXTENSION)
    IN  IF is_file_compressed(d, key) THEN get_file_nsnm_compressed(d, key)
        ELSE IF ~HasFile(d, name) THEN NULL
        ELSE IF Len(File(d, name).data) < DATA_NAMESPACE_CELL THEN NULL
        ELSE File(d, name).data[DATA_NAMESPACE_CELL]

\* The entry list_files() makes of file f, and whether it makes one; type
\* is what valid_file.type holds after validate_file_name().
file_entry(d, f, stale, inst, nsnm) ==
    LET valid_file == validate_file_name(f.name, stale)
        type == valid_file.type
        compress == /\ type # TYPE_BASE
                    /\ type # TYPE_META
                    /\ f.name.ext = FILE_EXTENSION_CMP
    IN  [ok |-> /\ valid_file.ok
                /\ valid_file.inst = inst
                /\ type = TYPE_BASE =>
                     /\ Len(f.data) >= BASE_NAMESPACE_CELL
                     /\ f.data[BASE_NAMESPACE_CELL] = nsnm
                /\ compress =>
                     /\ Len(f.data) >= CMPHDR_LEN
                     /\ f.data[1] = CMPHDR_MAG1 \/ f.data[1] = CMPHDR_MAG2
                     /\ f.data[2] = CMPHDR_VER,
         fp |-> [key |-> valid_file.key,
                 nsnm |-> IF type = TYPE_BASE /\ Len(f.data) >= BASE_NAMESPACE_CELL
                          THEN f.data[BASE_NAMESPACE_CELL]
                          ELSE IF type = TYPE_DAT_STAGE
                          THEN get_file_nsnm(d, valid_file.key)
                          ELSE NULL,
                 filsz |-> f.size,
                 segsz |-> IF compress /\ Len(f.data) >= CMPHDR_LEN
                           THEN f.data[4] ELSE f.size,
                 compress |-> compress,
                 stage |-> valid_file.stage,
                 inst |-> valid_file.inst,
                 nsid |-> valid_file.nsid,
                 type |-> type]]

\* list_files(): the table of the database files of the instance, a base
\* file only with the requested name, in key order; stale gives the type
\* per name that validate_file_name() leaves as it was.
list_files(d, stale, inst, nsnm) ==
    qsort({file_entry(d, f, Stale(stale, f.name), inst, nsnm).fp :
             f \in {x \in d : file_entry(d, x, Stale(stale, x.name), inst, nsnm).ok}})

\* analyze_restore_candidate(), up to the sanity check: the unit of the base
\* file at base_ix, or the failure to compose one.  The data stages stay in
\* the order of the table.
analyze_restore_candidate(d, fps, base_ix) ==
    LET pbfp == fps[base_ix]
        Mine(fp) == fp.nsid = pbfp.nsid /\ fp.inst = pbfp.inst
        IsTreex(fp) == fp.type = TYPE_TREEX /\ Mine(fp)
        IsPri(fp) == fp.type = TYPE_PRI_STAGE /\ Mine(fp)
        IsMeta(fp) == fp.type = TYPE_META /\ Mine(fp)
        IsSec(fp) == fp.type = TYPE_SEC_STAGE /\ Mine(fp)
        IsData(fp) == /\ fp.type = TYPE_DAT_STAGE
                      /\ fp.inst = pbfp.inst
                      /\ SameName(pbfp.nsnm, get_file_nsnm(d, fp.key))
        ptfps == SelectSeq(fps, IsTreex)
        psfps == qsort_seq(SelectSeq(fps, IsPri))
        smfps == SelectSeq(fps, IsMeta)
        ssfps == IF Len(smfps) = 1 THEN qsort_seq(SelectSeq(fps, IsSec))
                 ELSE <<>>
        dfps == SelectSeq(fps, IsData)
    IN  [ok |-> /\ Len(ptfps) = 1
                /\ Len(psfps) >= 1
                /\ StagesPresent(psfps)
                /\ Len(smfps) <= 1
                /\ Len(smfps) = 1 => Len(ssfps) >= 1 /\ StagesPresent(ssfps),
         unit |-> [pbsp |-> <<pbfp>>, ptsp |-> ptfps, pssps |-> psfps,
                   smsp |-> smfps, sssps |-> ssfps, dsps |-> dfps]]

\* analyze_restore_sanity(): the version and the arena count in the plain
\* file of the base, and no primary, secondary or data segment of the
\* instance and the nsid of the base on the host.
analyze_restore_sanity(u, s, d) ==
    LET pbfp == u.pbsp[1]
        name == pathname(pbfp.key, FILE_EXTENSION)
        base == File(d, name).data
    IN  /\ HasFile(d, name)
        /\ Len(base) >= N_ARENAS_PRI_CELL
        /\ VersionInRange(base[VER_CELL])
        /\ File(d, name).size >= N_ARENAS_PRI_END
        /\ base[N_ARENAS_PRI_CELL] = Len(u.pssps)
        /\ ~ \E ds \in s :
               /\ KeyTag(ds.key) \in {AS_XMEM_PRI_KEY, AS_XMEM_SEC_KEY,
                                      AS_XMEM_DAT_KEY}
               /\ KeyNsid(ds.key) = pbfp.nsid
               /\ KeyInst(ds.key) = pbfp.inst

\* ------------------------------------------------------------------------
\* analyze_restore().

\* analyze_restore(): the directory of check_dir(), never made, and the
\* table of list_files(); no directory and no file are failures.
AnalyzeRestore ==
    /\ pc = "analyze"
    /\ ~g_backup
    /\ \E stale \in [{f.name : f \in {x \in dir : FileTypeUnset(x.name)}}
                       -> AnyType] :
         LET fps == list_files(dir, stale, g_inst, g_nsnm)
         IN  IF ~check_dir(dir_exists, FALSE, FALSE).ok \/ Len(fps) = 0
             THEN /\ AnalyzeReturn(FALSE, unitlog)
                  /\ UNCHANGED scanVars
             ELSE /\ table' = fps
                  /\ scan_ix' = 1
                  /\ candidates' = FALSE
                  /\ pc' = "scan"
                  /\ UNCHANGED <<name_ix, success, oplog>>
    /\ UNCHANGED <<hostVars, optVars, g_nsnm, exit_status, unitVars, ios,
                   poolVars, faults, dispatched, completed, created, unitlog>>

\* The loop of analyze_restore() over the table, from scan_ix to the next
\* base file: its unit is composed and checked, and restored unless
\* analyzing; after the last file the function returns true, or looks for
\* orphaned data files when there was no base.
AnalyzeRestoreScan ==
    /\ pc = "scan"
    /\ ~g_backup
    /\ LET bases == {ix \in scan_ix .. Len(table) : table[ix].type = TYPE_BASE}
           base_ix == CHOOSE ix \in bases : \A jx \in bases : ix <= jx
           c == analyze_restore_candidate(dir, table, base_ix)
       IN  IF bases = {}
           THEN /\ IF candidates
                   THEN AnalyzeReturn(TRUE, unitlog)
                   ELSE /\ pc' = "orphans"
                        /\ UNCHANGED <<name_ix, success, oplog>>
                /\ UNCHANGED <<scanVars, unit, ios, created>>
           ELSE IF ~c.ok \/ ~analyze_restore_sanity(c.unit, shm, dir)
           THEN /\ AnalyzeReturn(FALSE, unitlog)
                /\ candidates' = TRUE
                /\ UNCHANGED <<table, scan_ix, unit, ios, created>>
           ELSE IF g_analyze
           THEN /\ scan_ix' = base_ix + 1
                /\ candidates' = TRUE
                /\ UNCHANGED <<pc, name_ix, success, oplog, table, unit, ios,
                               created>>
           ELSE /\ scan_ix' = base_ix
                /\ candidates' = TRUE
                /\ unit' = c.unit
                /\ ios' = <<>>
                /\ created' = {}
                /\ pc' = "rc_segment"
                /\ UNCHANGED <<name_ix, success, oplog, table>>
    /\ UNCHANGED <<hostVars, optVars, g_nsnm, exit_status, unit_ret, poolVars,
                   faults, dispatched, completed, unitlog>>

\* The search of analyze_restore() for orphaned data files: the data files
\* of the instance whose name is g_nsnm are a unit without a base.
AnalyzeRestoreOrphans ==
    /\ pc = "orphans"
    /\ ~g_backup
    /\ LET IsOrphan(fp) ==
             /\ fp.type = TYPE_DAT_STAGE
             /\ fp.inst = g_inst
             /\ get_file_nsnm(dir, fp.key) = g_nsnm
           dfps == qsort_seq(SelectSeq(table, IsOrphan))
       IN  IF Len(dfps) > 0 /\ ~g_analyze
           THEN /\ unit' = [NoUnit EXCEPT !.dsps = dfps]
                /\ ios' = <<>>
                /\ created' = {}
                /\ candidates' = TRUE
                /\ pc' = "rc_segment"
                /\ UNCHANGED <<name_ix, success, oplog>>
           ELSE /\ AnalyzeReturn(TRUE, unitlog)
                /\ candidates' = (Len(dfps) > 0)
                /\ UNCHANGED <<unit, ios, created>>
    /\ UNCHANGED <<hostVars, optVars, g_nsnm, exit_status, table, scan_ix,
                   unit_ret, poolVars, faults, dispatched, completed, unitlog>>

\* ------------------------------------------------------------------------
\* restore_candidate().

\* shmget(IPC_CREAT | IPC_EXCL): the segment of zero bytes, not attached.
shmget(s, key, segsz) ==
    s \cup {[key |-> key, natt |-> 0, segsz |-> segsz, body |-> ZeroBody]}

\* restore_candidate_cleanup(): the segments of the n_ios requests handed
\* in are detached and, with remove_segments, destroyed.
restore_candidate_cleanup(s, keys, remove_segments) ==
    IF remove_segments THEN {ds \in s : ds.key \notin Range(keys)}
    ELSE shmdt(s, Range(keys))

\* restore_candidate_segment() for the next member of the unit: shmget(),
\* shmat(), the request, open().  A failure cleans up the requests made
\* before, n_ios of them, and restore_candidate() returns false; after the
\* last member the requests are handed to start_io().
RestoreCandidateSegment ==
    /\ pc = "rc_segment"
    /\ LET members == UnitMembers(unit)
           fp == members[Len(ios) + 1]
           io == restore_io(fp)
           exists == HasSegment(shm, fp.key)
           outcomes == (IF exists THEN {"shmget"} ELSE {"ok"})
                       \cup (IF faults < MaxFaults
                             THEN {"shmget"} \cup
                                  (IF exists THEN {} ELSE {"shmat", "open"})
                             ELSE {})
           cleaned(s) == restore_candidate_cleanup(s, IoKeys(ios), TRUE)
       IN  \E o \in outcomes :
             /\ faults' = IF o = "ok" \/ exists THEN faults ELSE faults + 1
             /\ IF o = "shmget"
                THEN /\ shm' = cleaned(shm)
                     /\ unit_ret' = FALSE
                     /\ pc' = "rc_ret"
                     /\ UNCHANGED <<ios, created>>
                ELSE IF o = "shmat"
                THEN /\ shm' = cleaned(shmget(shm, fp.key, fp.segsz))
                     /\ created' = created \cup {fp.key}
                     /\ unit_ret' = FALSE
                     /\ pc' = "rc_ret"
                     /\ UNCHANGED ios
                ELSE IF o = "open" \/ ~HasFile(dir, io.fd)
                THEN /\ shm' = cleaned(shmat(shmget(shm, fp.key, fp.segsz),
                                             {fp.key}))
                     /\ created' = created \cup {fp.key}
                     /\ unit_ret' = FALSE
                     /\ pc' = "rc_ret"
                     /\ UNCHANGED ios
                ELSE /\ shm' = shmat(shmget(shm, fp.key, fp.segsz), {fp.key})
                     /\ created' = created \cup {fp.key}
                     /\ ios' = Append(ios, io)
                     /\ pc' = IF Len(ios) + 1 = Len(members) THEN "start_io"
                              ELSE "rc_segment"
                     /\ UNCHANGED unit_ret
    /\ UNCHANGED <<dir, dir_exists, optVars, mainVars, scanVars, unit, poolVars,
                   dispatched, completed, unitlog, oplog>>

\* restore_candidate_check_crc32(): the crc32 of the bytes of each segment
\* against the crc32 the request has from reading the file.
restore_candidate_check_crc32(s, reqs) ==
    \A i \in 1 .. Len(reqs) :
       /\ HasSegment(s, reqs[i].key)
       /\ crc32(g_crc32_init, Segment(s, reqs[i].key).body) = reqs[i].crc32

\* restore_candidate() after start_io(): the crc32 check with -c, the
\* cleanup, which destroys the segments after a failure, and the result.
RestoreCandidateFinish ==
    /\ pc = "io_done"
    /\ ~g_backup
    /\ LET ok == unit_ret /\ (g_crc32 => restore_candidate_check_crc32(shm, ios))
       IN  /\ shm' = restore_candidate_cleanup(shm, IoKeys(ios), ~ok)
           /\ unit_ret' = ok
    /\ pc' = "rc_ret"
    /\ UNCHANGED <<dir, dir_exists, optVars, mainVars, scanVars, unit, ios,
                   poolVars, faults, dispatched, completed, histVars>>

\* The segments of the attempt that are on the host.
CreatedSegmentsLeft == {key \in created : HasSegment(shm, key)}

\* restore_candidate() has returned to analyze_restore(): the result of the
\* unit of a base ends the operation when false and lets the scan go on when
\* true; the result of the unit of orphans is dropped.
AnalyzeRestoreResume ==
    /\ pc = "rc_ret"
    /\ LET units == Append(unitlog, [data_only |-> Len(unit.pbsp) = 0,
                                     ret |-> unit_ret,
                                     left |-> CreatedSegmentsLeft])
       IN  /\ unitlog' = units
           /\ IF Len(unit.pbsp) = 0
              THEN /\ AnalyzeReturn(TRUE, units)
                   /\ UNCHANGED scanVars
              ELSE IF unit_ret
              THEN /\ scan_ix' = scan_ix + 1
                   /\ pc' = "scan"
                   /\ UNCHANGED <<name_ix, success, oplog, table, candidates>>
              ELSE /\ AnalyzeReturn(FALSE, units)
                   /\ UNCHANGED scanVars
    /\ UNCHANGED <<hostVars, optVars, g_nsnm, exit_status, unitVars, ios,
                   poolVars, faults, dispatched, completed, created>>

\* ------------------------------------------------------------------------
\* Directories.

\* The files asmt -b leaves of the segments segs.
BackupFiles(segs, compress) ==
    {LET io == backup_io(stat_segment(ds, TYPE_DAT_STAGE, FALSE), compress)
         w == write_file(io, ds.body, FALSE)
     IN  [name |-> io.fd, size |-> w.size, data |-> w.data] : ds \in segs}

\* One byte of the contents of file name is changed: the last byte of a
\* plain file, the last byte before the trailer of a compressed one.
ChangeByte(d, name) ==
    LET f == File(d, name)
        at == IF name.ext = FILE_EXTENSION_CMP THEN Len(f.data) - 1
              ELSE Len(f.data)
    IN  SetData(d, name, f.size, [f.data EXCEPT ![at] = @ + 1])

\* The run with one byte of file name changed.
Changed(run, name) ==
    [run EXCEPT !.dir = ChangeByte(run.dir, name), !.changed = {name}]

\* The compressed file name ends early: the header, the lead of the stream
\* and its first cells are left.
TruncatedLen == CMPHDR_LEN + 3
Truncate(d, name) ==
    SetData(d, name, TruncatedLen, SubSeq(File(d, name).data, 1, TruncatedLen))

\* The file of the first primary stage of nsid 1.
StageFile(extension) ==
    pathname(Key(AS_XMEM_PRI_KEY, 0, 1, AS_XMEM_ARENA_KEY), extension)

\* The runs of asmt -r.
RestoreRuns ==
    {Run({}, BackupFiles(Host1, FALSE), <<Foo>>, MaxThreads),
     Run({}, BackupFiles(Host1, TRUE), <<Bar>>, MaxThreads),
     Run({}, BackupFiles(Host1, FALSE), <<Baz>>, 1),
     Run({}, BackupFiles(Host1, FALSE), <<>>, 1),
     Run({}, {}, <<Foo>>, 1),
     Run({}, BackupFiles(Host1, TRUE), <<Foo, Bar>>, 1),
     Run({}, BackupFiles(Host1, FALSE), <<Bar, EmptyName, Foo>>, 1),
     Changed(Run({}, BackupFiles(Host1, FALSE), <<Foo>>, 1),
             StageFile(FILE_EXTENSION)),
     Changed(Run({}, BackupFiles(Host1, TRUE), <<Foo>>, 1),
             StageFile(FILE_EXTENSION_CMP)),
     Run(Host1, BackupFiles(Host1, FALSE), <<Foo>>, 1),
     Run(OrphanData(0, 2, Bar, {2}), BackupFiles(Host1, FALSE), <<Bar>>, 1),
     Run(OrphanData(0, 2, Bar, {5}), BackupFiles(Host1, FALSE), <<Bar>>, 1),
     Run({}, BackupFiles(Host2, FALSE), <<Foo>>, 1),
     Run({}, BackupFiles(Host3, FALSE), <<Foo>>, 1),
     Run({}, BackupFiles(Host4, FALSE), <<Foo>>, 1),
     Run({}, BackupFiles(Host5, FALSE), <<Foo>>, 1),
     Run({}, BackupFiles(Host6, FALSE), <<Foo>>, 1),
     Run({}, BackupFiles(Host7, FALSE), <<Bar>>, 1),
     Run({}, BackupFiles(Host9, FALSE), <<Foo>>, 1),
     Run({}, Truncate(BackupFiles(Host1, TRUE), StageFile(FILE_EXTENSION_CMP)),
         <<Foo>>, 1)}
    \cup {Run({}, BackupFiles(host, FALSE), <<Foo>>, 1) : host \in InsaneHosts}

\* ------------------------------------------------------------------------
\* asmt -r: restores of the names of a list.

RestoreInit ==
    /\ \E run \in RestoreRuns :
         /\ shm = run.shm
         /\ dir = run.dir
         /\ g_nsnm_array = run.names
         /\ g_max_threads = run.threads
         /\ before = [shm |-> run.shm, changed |-> run.changed]
         /\ dir_exists \in IF run.dir = {} THEN BOOLEAN ELSE {TRUE}
    /\ g_backup = FALSE
    /\ g_analyze \in BOOLEAN
    /\ g_compress = FALSE
    /\ g_crc32 \in BOOLEAN
    /\ g_verbose = FALSE
    /\ g_inst = 0
    /\ pc = "main"
    /\ g_nsnm = EmptyName
    /\ unit = NoUnit
    /\ ios = <<>>
    /\ InitRest

RestoreNext ==
    \/ MainNext
    \/ MainExit
    \/ AnalyzeRestore
    \/ AnalyzeRestoreScan
    \/ AnalyzeRestoreOrphans
    \/ RestoreCandidateSegment
    \/ StartIo
    \/ StartIoCreate
    \/ StartIoCreated
    \/ StartIoFailLock
    \/ StartIoFailSet
    \/ StartIoJoin
    \/ StartIoReturn
    \/ \E t \in Threads : RunIo(t)
    \/ RestoreCandidateFinish
    \/ AnalyzeRestoreResume

SpecRestore == RestoreInit /\ [][RestoreNext]_vars

\* ------------------------------------------------------------------------
\* The restore: properties.

\* restore_candidate() has returned and its result is in unit_ret.
RestoreCandidateReturned == ~g_backup /\ pc = "rc_ret"

\* C2: when restore_candidate() returns false, no segment that the attempt
\* created is on the host.
C2_FailedRestoreDestroysSegments ==
    RestoreCandidateReturned /\ ~unit_ret => CreatedSegmentsLeft = {}

\* The segments of the primary, secondary or data family that the attempt did
\* not create, with the instance and an nsid of the unit.
ConflictingSegments ==
    {ds \in shm :
       /\ ds.key \notin created
       /\ KeyTag(ds.key) \in {AS_XMEM_PRI_KEY, AS_XMEM_SEC_KEY, AS_XMEM_DAT_KEY}
       /\ KeyInst(ds.key) = g_inst
       /\ \E i \in 1 .. Len(UnitMembers(unit)) :
            UnitMembers(unit)[i].nsid = KeyNsid(ds.key)}

\* C22: a request of a restore that read a compressed file with success
\* found the segment size in the header and inflated the whole stream, to
\* its end and to as many bytes as the segment has.
C22_CompressedReadComplete ==
    (~g_backup /\ pc \in {"create", "create_failed", "create_failed_locked",
                          "join", "io_done"}) =>
       \A e \in completed :
          (e[4] /\ ios[e[2] + 1].compress) =>
             LET io == ios[e[2] + 1]
                 f == File(dir, io.fd)
                 z == inflate(SubSeq(f.data, CMPHDR_LEN + 1, Len(f.data)))
             IN  /\ f.data[4] = io.segsz
                 /\ z.ret = Z_STREAM_END
                 /\ Len(z.out) = BodyLen

\* C11: the restore of a unit, with a base or without, returns false and
\* leaves no segment it created when the host holds a primary, secondary or
\* data segment of the instance and the nsid of the unit (no system call
\* failing otherwise).
C11_ConflictFailsRestore ==
    (RestoreCandidateReturned /\ ConflictingSegments # {} /\ faults = 0) =>
       /\ ~unit_ret
       /\ CreatedSegmentsLeft = {}

\* ------------------------------------------------------------------------
\* asmt: a run of either operation.

AsmtInit == BackupInit \/ RestoreInit

AsmtNext ==
    \/ MainNext
    \/ MainExit
    \/ AnalyzeBackup
    \/ AnalyzeBackupScan
    \/ AnalyzeBackupOrphans
    \/ BackupCandidateFile
    \/ BackupCandidateFinish
    \/ AnalyzeBackupResume
    \/ AnalyzeRestore
    \/ AnalyzeRestoreScan
    \/ AnalyzeRestoreOrphans
    \/ RestoreCandidateSegment
    \/ RestoreCandidateFinish
    \/ AnalyzeRestoreResume
    \/ StartIo
    \/ StartIoCreate
    \/ StartIoCreated
    \/ StartIoFailLock
    \/ StartIoFailSet
    \/ StartIoJoin
    \/ StartIoReturn
    \/ \E t \in Threads : RunIo(t)

SpecAsmt == AsmtInit /\ [][AsmtNext]_vars

\* ------------------------------------------------------------------------
\* asmt: properties.

\* The non-empty names among the first n of the list.
RECURSIVE NonEmpty(_, _)
NonEmpty(names, n) ==
    IF n = 0 THEN <<>>
    ELSE IF names[n] = EmptyName THEN NonEmpty(names, n - 1)
    ELSE Append(NonEmpty(names, n - 1), names[n])

\* C7: the operations run are those of the non-empty names, in the order of
\* the list, whatever analyze() returned for the earlier names; the process
\* exits after the last name, with failure if analyze() returned false for
\* at least one name, and with success only if it returned true for all.
C7_EveryNameInOrder ==
    /\ [i \in 1 .. Len(oplog) |-> oplog[i].nsnm]
         = NonEmpty(g_nsnm_array, name_ix - 1)
    /\ pc = "exit" =>
         /\ name_ix = Len(g_nsnm_array) + 1
         /\ (\E i \in 1 .. Len(oplog) : ~oplog[i].ret) => exit_status = EXIT_FAILURE
         /\ exit_status = EXIT_SUCCESS => \A i \in 1 .. Len(oplog) : oplog[i].ret

\* The process has exited with failure after the operation of the first
\* name failed and that of the second succeeded.
C7_Witness ==
    /\ pc = "exit"
    /\ Len(oplog) = 2
    /\ ~oplog[1].ret
    /\ oplog[2].ret
    /\ exit_status = EXIT_FAILURE

\* The host has a base with the name, or a data stage with the name.
HasUnitNamed(s, nsnm) ==
    \E ds \in s :
       \/ /\ KeyTag(ds.key) = AS_XMEM_PRI_KEY
          /\ KeySel(ds.key) = 0
          /\ ds.body[BASE_NAMESPACE_CELL] = nsnm
       \/ /\ KeyTag(ds.key) = AS_XMEM_DAT_KEY
          /\ ds.body[DATA_NAMESPACE_CELL] = nsnm

\* The directory has a base file with the name, or a data file with the
\* name.
HasFilesNamed(d, nsnm) ==
    \E f \in d :
       \/ /\ KeyTag(NameKey(f.name)) = AS_XMEM_PRI_KEY
          /\ KeySel(NameKey(f.name)) = 0
          /\ Len(f.data) >= BASE_NAMESPACE_CELL
          /\ f.data[BASE_NAMESPACE_CELL] = nsnm
       \/ /\ KeyTag(NameKey(f.name)) = AS_XMEM_DAT_KEY
          /\ get_file_nsnm(d, NameKey(f.name)) = nsnm

\* C8: the operation for a name that has neither a base nor a data stage
\* among the segments of the host (backup) or the files of the directory
\* (restore) returns false, and the process exits with failure.
C8_NoCandidateIsFailure ==
    \A i \in 1 .. Len(oplog) :
       ~(IF g_backup THEN HasUnitNamed(shm, oplog[i].nsnm)
         ELSE HasFilesNamed(dir, oplog[i].nsnm)) =>
          /\ ~oplog[i].ret
          /\ pc = "exit" => exit_status = EXIT_FAILURE

\* C9: the operation in which the backup or the restore of a unit of
\* orphaned data stages failed returns false, and the process exits with
\* failure.
C9_DataOnlyFailureIsFailure ==
    \A i \in 1 .. Len(oplog) :
       (\E j \in 1 .. Len(oplog[i].units) :
           oplog[i].units[j].data_only /\ ~oplog[i].units[j].ret) =>
          /\ ~oplog[i].ret
          /\ pc = "exit" => exit_status = EXIT_FAILURE

\* backup_candidate() or restore_candidate() is at work on the unit, or has
\* returned.
InCandidate ==
    pc \in {"bc_file", "rc_segment", "start_io", "create", "create_failed",
            "create_failed_locked", "join", "io_done", "bc_ret", "rc_ret"}

\* The stages of the primary stage records of the table with the instance
\* and the nsid of record base.
PriStagesOf(base) ==
    {table[i].stage : i \in {j \in 1 .. Len(table) :
                               /\ table[j].type = TYPE_PRI_STAGE
                               /\ table[j].inst = base.inst
                               /\ table[j].nsid = base.nsid}}

\* C13: a unit with a base is handed to backup_candidate() or
\* restore_candidate() only if the stages of its K primary stage records in
\* the table are exactly 0x100 .. 0x100 + K - 1, and the unit has them all.
C13_PriStagesContiguous ==
    (InCandidate /\ Len(unit.pbsp) = 1) =>
       LET stages == PriStagesOf(unit.pbsp[1])
           K == Len(unit.pssps)
       IN  /\ K >= 1
           /\ stages = AS_XMEM_ARENA_KEY .. AS_XMEM_ARENA_KEY + K - 1
           /\ {unit.pssps[i].stage : i \in 1 .. K} = stages

\* A unit with two primary stages is being transferred.
C13_Witness ==
    /\ InCandidate
    /\ Len(unit.pbsp) = 1
    /\ Len(unit.pssps) = 2
    /\ created # {}

\* The name in the contents of the segment or of the file of data stage
\* record m.
EmbeddedName(m) ==
    IF g_backup THEN get_segment_nsnm(TYPE_DAT_STAGE, Segment(shm, m.key).body)
    ELSE get_file_nsnm(dir, m.key)

\* The records of the sequence all have the type, and the instance and the
\* nsid of record base.
AllOf(records, type, base) ==
    \A i \in 1 .. Len(records) :
       /\ records[i].type = type
       /\ records[i].inst = base.inst
       /\ records[i].nsid = base.nsid

StageSegments(s, tag, ds) ==
    {x \in s : /\ KeyTag(x.key) = tag
               /\ KeyInst(x.key) = KeyInst(ds.key)
               /\ KeyNsid(x.key) = KeyNsid(ds.key)
               /\ KeySel(x.key) >= MIN_ARENA /\ KeySel(x.key) <= MAX_ARENA}

\* The base segment ds of host s is of 2156 bytes or more, of version
\* 10..12 and shut down, its arena count is the number of the primary
\* stages, and the arena count of the meta, if there is one, is the number
\* of the secondary stages.
SaneOnHost(s, ds) ==
    LET meta == Key(AS_XMEM_SEC_KEY, KeyInst(ds.key), KeyNsid(ds.key), 0)
    IN  /\ ds.segsz >= 2156
        /\ ds.body[VER_CELL] \in 10 .. 12
        /\ ds.body[SHUT_CELL] = 1
        /\ ds.body[N_ARENAS_PRI_CELL]
             = Cardinality(StageSegments(s, AS_XMEM_PRI_KEY, ds))
        /\ HasSegment(s, meta) =>
             Segment(s, meta).body[N_ARENAS_SEC_CELL]
               = Cardinality(StageSegments(s, AS_XMEM_SEC_KEY, ds))

\* The base segments of the instance on host s that hold the name.
BasesNamed(s, nsnm) ==
    {ds \in s : /\ KeyTag(ds.key) = AS_XMEM_PRI_KEY
                /\ KeySel(ds.key) = 0
                /\ KeyInst(ds.key) = g_inst
                /\ ds.body[BASE_NAMESPACE_CELL] = nsnm}

\* C15: backup_candidate() works on a unit with a base only if the base
\* segment is of 2156 bytes or more, of version 10..12 and shut down, and
\* the arena counts of base and meta are the numbers of primary and
\* secondary stages; the backup of a name whose base is not so returns
\* false without an attempt at a unit, so that no file is created.
C15_BackupSanity ==
    g_backup =>
       /\ (InCandidate /\ Len(unit.pbsp) = 1) =>
             SaneOnHost(shm, Segment(shm, unit.pbsp[1].key))
       /\ \A i \in 1 .. Len(oplog) :
             (\E ds \in BasesNamed(shm, oplog[i].nsnm) : ~SaneOnHost(shm, ds)) =>
                /\ ~oplog[i].ret
                /\ oplog[i].units = <<>>

\* The backup of a name whose base is not in order has failed, and the
\* directory is empty.
C15_Witness ==
    /\ g_backup
    /\ ~g_analyze
    /\ pc = "exit"
    /\ Len(oplog) = 1
    /\ \E ds \in BasesNamed(shm, oplog[1].nsnm) : ~SaneOnHost(shm, ds)
    /\ exit_status = EXIT_FAILURE
    /\ dir = {}

\* The files of directory d whose name holds a key of the family of tag
\* with the instance and the nsid of the key of file f and a selector of a
\* stage.
StageFilesOf(d, tag, f) ==
    {x \in d : /\ KeyTag(NameKey(x.name)) = tag
               /\ KeyInst(NameKey(x.name)) = KeyInst(NameKey(f.name))
               /\ KeyNsid(NameKey(x.name)) = KeyNsid(NameKey(f.name))
               /\ KeySel(NameKey(x.name)) >= MIN_ARENA
               /\ KeySel(NameKey(x.name)) <= MAX_ARENA}

\* The base file f of directory d is of version 10..12 and shut down, its
\* arena count is the number of the primary stage files, and the arena
\* count of the meta file, if there is one, is the number of the secondary
\* stage files.
SaneInDir(d, f) ==
    LET key == NameKey(f.name)
        meta == pathname(Key(AS_XMEM_SEC_KEY, KeyInst(key), KeyNsid(key), 0),
                         FILE_EXTENSION)
    IN  /\ f.data[VER_CELL] \in 10 .. 12
        /\ f.data[SHUT_CELL] = 1
        /\ f.data[N_ARENAS_PRI_CELL]
             = Cardinality(StageFilesOf(d, AS_XMEM_PRI_KEY, f))
        /\ HasFile(d, meta) =>
             File(d, meta).data[N_ARENAS_SEC_CELL]
               = Cardinality(StageFilesOf(d, AS_XMEM_SEC_KEY, f))

\* The base files of the instance in directory d that hold the name.
BaseFilesNamed(d, nsnm) ==
    {f \in d : /\ KeyTag(NameKey(f.name)) = AS_XMEM_PRI_KEY
               /\ KeySel(NameKey(f.name)) = 0
               /\ KeyInst(NameKey(f.name)) = g_inst
               /\ f.data[BASE_NAMESPACE_CELL] = nsnm}

\* C16: restore_candidate() works on a unit with a base only if the base
\* file is of version 10..12 and shut down, and the arena counts of the
\* base and meta files are the numbers of primary and secondary stage
\* files; the restore of a name whose base file is not so returns false
\* without an attempt at a unit, so that no segment is created.
C16_RestoreSanity ==
    ~g_backup =>
       /\ (InCandidate /\ Len(unit.pbsp) = 1) =>
             SaneInDir(dir, File(dir, pathname(unit.pbsp[1].key,
                                               FILE_EXTENSION)))
       /\ \A i \in 1 .. Len(oplog) :
             (\E f \in BaseFilesNamed(dir, oplog[i].nsnm) :
                 ~SaneInDir(dir, f)) =>
                /\ ~oplog[i].ret
                /\ oplog[i].units = <<>>

\* The keys of the data family of the instance whose segment on the host
\* (backup) or file in the directory (restore) holds the name.
DataKeysNamed(nsnm) ==
    IF g_backup
    THEN {ds.key : ds \in {x \in shm : /\ KeyTag(x.key) = AS_XMEM_DAT_KEY
                                        /\ KeyInst(x.key) = g_inst
                                        /\ x.body[DATA_NAMESPACE_CELL] = nsnm}}
    ELSE {NameKey(f.name) :
            f \in {x \in dir : /\ KeyTag(NameKey(x.name)) = AS_XMEM_DAT_KEY
                               /\ KeyInst(NameKey(x.name)) = g_inst
                               /\ get_file_nsnm(dir, NameKey(x.name)) = nsnm}}

\* C17: every record of the table of list_segments() or list_files() whose
\* key is of the data family is a data stage whose stage is the selector
\* of the key, whatever the selector; and a unit without a base is made of
\* all the data keys that hold the requested name (0xad002000 and
\* 0xad002001 of "bar" make a unit of two data stages).
C17_DataKeysAreDataStages ==
    /\ \A i \in 1 .. Len(table) :
          KeyTag(table[i].key) = AS_XMEM_DAT_KEY =>
             /\ table[i].type = TYPE_DAT_STAGE
             /\ table[i].stage = KeySel(table[i].key)
    /\ (InCandidate /\ Len(unit.pbsp) = 0) =>
          {unit.dsps[i].key : i \in 1 .. Len(unit.dsps)} = DataKeysNamed(g_nsnm)

\* C18: the name backup gives the file of a record of the table of
\* list_segments(), with either extension, is accepted by
\* validate_file_name() and gives the key, type, instance, namespace id and
\* stage of the record, whatever the as_file_t held before.
C18_KeyRoundTrip ==
    g_backup =>
       \A i \in 1 .. Len(table) :
          \A extension \in {FILE_EXTENSION, FILE_EXTENSION_CMP} :
             \A stale \in AnyType :
                LET sp == table[i]
                    fp == validate_file_name(pathname(sp.key, extension), stale)
                IN  /\ fp.ok
                    /\ fp.key = sp.key
                    /\ fp.type = sp.type
                    /\ fp.inst = sp.inst
                    /\ fp.nsid = sp.nsid
                    /\ fp.stage = sp.stage

\* The name of the file of member sp of a unit: <key>.dat.gz with -z for
\* a member that is neither the base nor the meta, <key>.dat otherwise.
MemberFileName(sp) ==
    pathname(sp.key, IF g_compress /\ sp.type \notin {TYPE_BASE, TYPE_META}
                     THEN FILE_EXTENSION_CMP ELSE FILE_EXTENSION)

\* C19: the request of every member of the unit names the file
\* <key>.dat.gz and is compressed exactly when -z is given and the member
\* is neither the base nor the meta, and names <key>.dat otherwise; after
\* a backup that succeeded the file is a compressed stream in the first
\* case and the image of the segment in the second; and the names
\* backup_candidate_cleanup() works out for the unit are those of the
\* requests of all its members.
C19_FileNames ==
    (g_backup /\ InCandidate) =>
       /\ \A i \in 1 .. Len(ios) :
             LET sp == UnitMembers(unit)[i]
                 cmp == g_compress /\ sp.type \notin {TYPE_BASE, TYPE_META}
             IN  /\ ios[i].fd = MemberFileName(sp)
                 /\ ios[i].compress = cmp
                 /\ (pc = "bc_ret" /\ unit_ret) =>
                       /\ HasFile(dir, ios[i].fd)
                       /\ IF cmp
                          THEN File(dir, ios[i].fd).data[1] = CMPHDR_MAG2
                          ELSE /\ File(dir, ios[i].fd).data
                                    = Segment(shm, sp.key).body
                               /\ File(dir, ios[i].fd).size = sp.segsz
       /\ CleanupNames(unit, g_compress)
            = {MemberFileName(UnitMembers(unit)[i]) :
                 i \in 1 .. Len(UnitMembers(unit))}

\* C20: after a backup of a unit that succeeded the files created are
\* those of the requests, each with the bytes write_file() makes of its
\* segment, and after a restore that succeeded the segments created are
\* those of the requests, each with the bytes read_file() makes of its
\* file: the same for every number of threads and every order in which
\* the threads took and finished the requests.
C20_PoolDeterminism ==
    (pc \in {"bc_ret", "rc_ret"} /\ unit_ret) =>
       /\ Len(ios) = Len(UnitMembers(unit))
       /\ created = {IF g_backup THEN ios[i].fd ELSE ios[i].key :
                       i \in 1 .. Len(ios)}
       /\ \A i \in 1 .. Len(ios) :
             LET io == ios[i]
                 sp == UnitMembers(unit)[i]
             IN  IF g_backup
                 THEN LET w == write_file(backup_io(sp, g_compress),
                                          Segment(shm, sp.key).body, g_crc32)
                      IN  /\ HasFile(dir, io.fd)
                          /\ File(dir, io.fd).data = w.data
                          /\ File(dir, io.fd).size = w.size
                 ELSE /\ HasSegment(shm, io.key)
                      /\ HasFile(dir, io.fd)
                      /\ Segment(shm, io.key).body
                           = read_file(io, File(dir, io.fd), ZeroBody,
                                       g_crc32).body

\* A backup of a unit has succeeded whose requests were finished by two
\* threads.
C20_Witness ==
    /\ g_backup
    /\ pc = "bc_ret"
    /\ unit_ret
    /\ n_threads = MaxThreads
    /\ \E e1 \in completed : \E e2 \in completed : e1[1] # e2[1]
    /\ \A i \in 1 .. Len(ios) : HasFile(dir, ios[i].fd)

\* A key that is not one of a database: its tag is none of the three, its
\* namespace id is outside MIN_NSID..MAX_NSID, its selector is above
\* MAX_ARENA under the primary or the secondary tag, or it is the treex
\* selector under the secondary tag.
InvalidKey(key) ==
    \/ KeyTag(key) \notin {AS_XMEM_PRI_KEY, AS_XMEM_SEC_KEY, AS_XMEM_DAT_KEY}
    \/ KeyNsid(key) < MIN_NSID
    \/ KeyNsid(key) > MAX_NSID
    \/ /\ KeyTag(key) \in {AS_XMEM_PRI_KEY, AS_XMEM_SEC_KEY}
       /\ KeySel(key) > MAX_ARENA
    \/ /\ KeyTag(key) = AS_XMEM_SEC_KEY
       /\ KeySel(key) = AS_XMEM_TREEX_KEY

\* C21: no record of the table of list_segments() or list_files(), and no
\* member of a unit, has a key that is not one of a database.
C21_InvalidKeysRejected ==
    /\ \A i \in 1 .. Len(table) : ~InvalidKey(table[i].key)
    /\ InCandidate =>
          \A i \in 1 .. Len(UnitMembers(unit)) :
             ~InvalidKey(UnitMembers(unit)[i].key)

\* C12: with -a no step of a backup or of a restore changes the segments of
\* the host, the files of the directory, or whether the directory exists.
C12_AnalyzeChangesNothing ==
    [][g_analyze => UNCHANGED hostVars]_vars

\* asmt -a -b of a name has found its unit and returned true.
C12_Witness ==
    /\ g_analyze
    /\ g_backup
    /\ pc = "exit"
    /\ exit_status = EXIT_SUCCESS
    /\ Len(oplog) > 0
    /\ HasUnitNamed(shm, oplog[1].nsnm)
    /\ dir = {}

\* ------------------------------------------------------------------------
\* The round trip: asmt -b on a host with an empty directory, the reboot of
\* the host, and asmt -r with the same options.

\* The stage files of a directory.
StageFiles(d) ==
    {f.name : f \in {x \in d :
        \/ KeyTag(NameKey(x.name)) = AS_XMEM_DAT_KEY
        \/ KeySel(NameKey(x.name)) >= AS_XMEM_ARENA_KEY}}

\* After a backup that exited with success the host is rebooted, which
\* takes its segments away; one byte of one stage file may be changed; and
\* asmt -r starts on the same list of names.
Reboot ==
    /\ pc = "exit"
    /\ g_backup
    /\ exit_status = EXIT_SUCCESS
    /\ shm' = {}
    /\ \E changed \in {{}} \cup {{name} : name \in StageFiles(dir)} :
         /\ dir' = IF changed = {} THEN dir
                   ELSE ChangeByte(dir, CHOOSE name \in changed : TRUE)
         /\ before' = [before EXCEPT !.changed = changed]
    /\ g_backup' = FALSE
    /\ pc' = "main"
    /\ name_ix' = 1
    /\ g_nsnm' = EmptyName
    /\ success' = TRUE
    /\ exit_status' = NULL
    /\ table' = <<>>
    /\ scan_ix' = 0
    /\ candidates' = FALSE
    /\ unit' = NoUnit
    /\ unit_ret' = TRUE
    /\ ios' = <<>>
    /\ g_ios_ok' = TRUE
    /\ g_next_io' = 0
    /\ g_n_ios' = 0
    /\ g_total_to_transfer' = 0
    /\ g_total_transferred' = 0
    /\ g_decile_transferred' = 0
    /\ g_io_mutex' = NoThread
    /\ n_threads' = 0
    /\ n_created' = 0
    /\ n_joined' = 0
    /\ worker' = [t \in Threads |-> NoWorker]
    /\ dispatched' = {}
    /\ completed' = {}
    /\ created' = {}
    /\ unitlog' = <<>>
    /\ oplog' = <<>>
    /\ UNCHANGED <<dir_exists, g_analyze, g_compress, g_crc32, g_verbose,
                   g_max_threads, g_inst, g_nsnm_array, faults>>

\* The runs of the round trip: the unit of "foo" on each host, and the
\* orphaned data stages of "bar".
RoundTripRuns ==
    {Run(Host1, {}, <<Foo>>, 1),
     Run(Host1, {}, <<Bar>>, 1),
     Run(Host2, {}, <<Foo>>, 1),
     Run(Host3, {}, <<Foo>>, 1)}

RoundTripInit ==
    /\ \E run \in RoundTripRuns :
         /\ shm = run.shm
         /\ dir = run.dir
         /\ g_nsnm_array = run.names
         /\ g_max_threads = run.threads
         /\ before = [shm |-> run.shm, changed |-> run.changed]
    /\ dir_exists = FALSE
    /\ g_backup = TRUE
    /\ g_analyze = FALSE
    /\ g_compress \in BOOLEAN
    /\ g_crc32 \in BOOLEAN
    /\ g_verbose = FALSE
    /\ g_inst = 0
    /\ pc = "main"
    /\ g_nsnm = EmptyName
    /\ unit = NoUnit
    /\ ios = <<>>
    /\ InitRest

RoundTripNext == AsmtNext \/ Reboot

SpecRoundTrip == RoundTripInit /\ [][RoundTripNext]_vars

\* ------------------------------------------------------------------------
\* The round trip: properties.

\* asmt -r has exited.
RestoreExited == ~g_backup /\ pc = "exit"

\* The segments of the unit of the name among the segments s: the base
\* with the name, the primary and secondary segments of its instance and
\* nsid, and the data stages with the name.
UnitSegments(s, nsnm) ==
    {ds \in s :
       \/ /\ KeyTag(ds.key) = AS_XMEM_DAT_KEY
          /\ ds.body[DATA_NAMESPACE_CELL] = nsnm
       \/ /\ KeyTag(ds.key) \in {AS_XMEM_PRI_KEY, AS_XMEM_SEC_KEY}
          /\ \E b \in s :
               /\ KeyTag(b.key) = AS_XMEM_PRI_KEY
               /\ KeySel(b.key) = 0
               /\ b.body[BASE_NAMESPACE_CELL] = nsnm
               /\ KeyInst(b.key) = KeyInst(ds.key)
               /\ KeyNsid(b.key) = KeyNsid(ds.key)}

\* The segments s have a base with the name.
HasBaseNamed(s, nsnm) ==
    \E ds \in s :
       /\ KeyTag(ds.key) = AS_XMEM_PRI_KEY
       /\ KeySel(ds.key) = 0
       /\ ds.body[BASE_NAMESPACE_CELL] = nsnm

\* A file of the restored name that is a plain stage file was changed.
PlainStageFileChanged ==
    \E name \in before.changed :
       /\ name.ext = FILE_EXTENSION
       /\ \E ds \in UnitSegments(before.shm, g_nsnm_array[1]) :
            ds.key = NameKey(name)

\* C3: with -c, asmt -r on the files of a unit with a base, of which one
\* byte of a plain stage file was changed after the backup, exits with
\* failure and leaves no segment; and when no system call failed, asmt -r
\* exits with success only if every segment on the host has the crc32 of
\* the segment that was backed up.
C3_ChangedByteFailsRestore ==
    (/\ RestoreExited
     /\ g_crc32
     /\ HasBaseNamed(before.shm, g_nsnm_array[1])
     /\ faults = 0) =>
       /\ PlainStageFileChanged =>
            exit_status = EXIT_FAILURE /\ shm = {}
       /\ exit_status = EXIT_SUCCESS =>
            \A ds \in shm :
               /\ HasSegment(before.shm, ds.key)
               /\ crc32(g_crc32_init, ds.body)
                    = crc32(g_crc32_init, Segment(before.shm, ds.key).body)

\* C4: after a backup of a unit with a base that exited with success, and
\* with no file changed, asmt -r on the rebooted host exits with success,
\* unless a system call failed, and then the segments of the host are those
\* of the unit as they were backed up: the same keys, sizes and bytes.
C4_RoundTrip ==
    (/\ RestoreExited
     /\ before.changed = {}
     /\ HasBaseNamed(before.shm, g_nsnm_array[1])) =>
       /\ faults = 0 => exit_status = EXIT_SUCCESS
       /\ exit_status = EXIT_SUCCESS =>
            shm = UnitSegments(before.shm, g_nsnm_array[1])

\* ------------------------------------------------------------------------
\* asmt -b while another process writes to a segment.  The segments are
\* shared memory: between stat_segment(), which takes the crc32 of a
\* segment, and write_file(), which takes that of the bytes it writes, a
\* process that attaches the segment may change its bytes.

\* What the other process adds to the last cell of the segment.
WRITTEN == 100

\* The segments another process has written to.
WrittenSegments == {ds \in shm : ds.body[REST_CELL] >= WRITTEN}

\* Another process writes to one segment of the host, once in a run, after
\* the table of list_segments() was made and before start_io() returns.
OtherProcessWrites ==
    /\ g_backup
    /\ pc \in {"scan", "orphans", "bc_file", "start_io", "create", "join"}
    /\ WrittenSegments = {}
    /\ \E ds \in shm :
         shm' = SetBody(shm, ds.key,
                        [ds.body EXCEPT ![REST_CELL] = @ + WRITTEN])
    /\ UNCHANGED <<dir, dir_exists, optVars, pc, mainVars, scanVars, unitVars,
                   ios, poolVars, faults, dispatched, completed, histVars>>

CrcInit == BackupInit /\ ~g_analyze

CrcNext == BackupNext \/ OtherProcessWrites

SpecCrc == CrcInit /\ [][CrcNext]_vars

\* C23: with -c, when backup_candidate() returns true every member of the
\* unit has a request with its key, and the crc32 stat_segment() took of
\* the member is the crc32 that request reported.
C23_CrcOfEveryMember ==
    (g_backup /\ g_crc32 /\ pc = "bc_ret" /\ unit_ret) =>
       \A i \in 1 .. Len(UnitMembers(unit)) :
          \E j \in 1 .. Len(ios) :
             /\ ios[j].key = UnitMembers(unit)[i].key
             /\ ios[j].crc32 = UnitMembers(unit)[i].crc32

\* With -c every request of the unit was written with success, a data
\* stage of the unit was written to by another process in between, and
\* backup_candidate() has returned false.
C23_Witness ==
    /\ g_backup
    /\ g_crc32
    /\ pc = "bc_ret"
    /\ ~unit_ret
    /\ faults = 0
    /\ Len(ios) = Len(UnitMembers(unit))
    /\ \A j \in 1 .. Len(ios) : <<1, j - 1, 0, TRUE>> \in completed
    /\ \E i \in 1 .. Len(unit.dsps) :
          /\ unit.dsps[i].crc32 # ios[Len(ios) - Len(unit.dsps) + i].crc32
          /\ Segment(shm, unit.dsps[i].key) \in WrittenSegments

\* ------------------------------------------------------------------------
\* asmt -b run twice into the same directory, which is empty at first:
\* without -z, and then, whatever the first run's exit status, with -z.

\* The runs that are repeated: the unit of "foo" and the orphaned data
\* stages of "bar".
AgainRuns ==
    {Run(Host1, {}, <<Foo>>, 1),
     Run(Host1, {}, <<Bar>>, 1)}

AgainInit ==
    /\ \E run \in AgainRuns :
         /\ shm = run.shm
         /\ dir = run.dir
         /\ g_nsnm_array = run.names
         /\ g_max_threads = run.threads
         /\ before = [shm |-> run.shm, changed |-> run.changed]
    /\ dir_exists = FALSE
    /\ g_backup = TRUE
    /\ g_analyze = FALSE
    /\ g_compress = FALSE
    /\ g_crc32 = FALSE
    /\ g_verbose = FALSE
    /\ g_inst = 0
    /\ pc = "main"
    /\ g_nsnm = EmptyName
    /\ unit = NoUnit
    /\ ios = <<>>
    /\ InitRest

\* The run without -z has exited: main() of asmt -b -z starts.
BackupAgain ==
    /\ pc = "exit"
    /\ g_backup
    /\ ~g_compress
    /\ g_compress' = TRUE
    /\ pc' = "main"
    /\ name_ix' = 1
    /\ g_nsnm' = EmptyName
    /\ success' = TRUE
    /\ exit_status' = NULL
    /\ table' = <<>>
    /\ scan_ix' = 0
    /\ candidates' = FALSE
    /\ unit' = NoUnit
    /\ unit_ret' = TRUE
    /\ ios' = <<>>
    /\ g_ios_ok' = TRUE
    /\ g_next_io' = 0
    /\ g_n_ios' = 0
    /\ g_total_to_transfer' = 0
    /\ g_total_transferred' = 0
    /\ g_decile_transferred' = 0
    /\ g_io_mutex' = NoThread
    /\ n_threads' = 0
    /\ n_created' = 0
    /\ n_joined' = 0
    /\ worker' = [t \in Threads |-> NoWorker]
    /\ dispatched' = {}
    /\ completed' = {}
    /\ created' = {}
    /\ unitlog' = <<>>
    /\ oplog' = <<>>
    /\ UNCHANGED <<hostVars, g_backup, g_analyze, g_crc32, g_verbose,
                   g_max_threads, g_inst, g_nsnm_array, before, faults>>

AgainNext == BackupNext \/ BackupAgain

SpecAgain == AgainInit /\ [][AgainNext]_vars

\* C26: no two files of the directory have the same key, that is, no key
\* has both a <key>.dat and a <key>.dat.gz file.
C26_NoKeyTwice ==
    \A f \in dir : \A g \in dir :
       NameKey(f.name) = NameKey(g.name) => f.name = g.name

\* ------------------------------------------------------------------------
\* The pool under fair scheduling, next to a process that truncates a file.
\* restore_candidate_segment() takes segsz of a file that is not compressed
\* from the st_size list_files() found; the file may be shorter by the time
\* a thread reads it.

\* The cells left of a file that was truncated.
ShortLen == 3

\* The files that end before the segsz of their request.
ShortFiles == {i \in 1 .. Len(ios) : pread_spins(ios[i], File(dir, ios[i].fd))}

\* Another process truncates the file of one request that is read and not
\* compressed, once, before start_io() has joined the threads.
OtherProcessTruncates ==
    /\ pc \in {"start_io", "create", "join"}
    /\ ShortFiles = {}
    /\ \E i \in 1 .. Len(ios) :
         /\ ~ios[i].write
         /\ ~ios[i].compress
         /\ dir' = SetData(dir, ios[i].fd, ShortLen,
                           SubSeq(File(dir, ios[i].fd).data, 1, ShortLen))
    /\ UNCHANGED <<shm, dir_exists, optVars, pc, mainVars, scanVars, unitVars,
                   ios, poolVars, faults, dispatched, completed, histVars>>

\* The loop of pread_file() of thread t on a file that ends early: pread()
\* returns 0, and continue leads to the same pread() again.
PreadFileLoop(t) ==
    /\ worker[t].pc \in {"pread", "pread_zero"}
    /\ pread_spins(ios[worker[t].next + 1],
                   File(dir, ios[worker[t].next + 1].fd))
    /\ worker' = [worker EXCEPT ![t].pc = IF @ = "pread" THEN "pread_zero"
                                          ELSE "pread"]
    /\ UNCHANGED <<WorkerFrame, hostVars, ios, g_ios_ok, g_next_io,
                   g_total_transferred, g_decile_transferred, g_io_mutex,
                   faults, dispatched, completed>>

FairNext ==
    \/ PoolNext
    \/ OtherProcessTruncates
    \/ \E t \in Threads : PreadFileLoop(t)

\* The main thread and every thread of the pool are scheduled again and
\* again; the other process need not act.
Fairness ==
    /\ WF_vars(StartIo \/ StartIoCreate \/ StartIoCreated \/ StartIoFailLock
                  \/ StartIoFailSet \/ StartIoJoin \/ StartIoReturn)
    /\ \A t \in Threads : WF_vars(RunIo(t) \/ PreadFileLoop(t))

FairInit == PoolInit /\ ~g_verbose /\ ~g_crc32

SpecFair == FairInit /\ [][FairNext]_vars /\ Fairness

\* C29: start_io() returns in the end, and from some point on every
\* request a thread has taken is completed (neither history loses an
\* entry while the pool runs).
C29_PoolTerminates ==
    /\ <>(pc = "io_done")
    /\ <>[](\A e \in dispatched : \E c \in completed : c[2] = e[2])

====
